---- MODULE Spec2Model ----
(***************************************************************************)
(* Model of tcex/testing/validate_data.py: the Validator operator table,   *)
(* the Redis key-value validator (data, validate_log_output) and the       *)
(* ThreatConnect entity validator (tc_entity and its facet checks); and of  *)
(* tcex/exit/exit.py: the ExitService (exit_code, exit, _message_tc); and  *)
(* of tcex/app_config/layout_json.py: LayoutJsonUpdate.multiple.            *)
(*                                                                         *)
(* Python values are tagged records:                                       *)
(*   None          [t |-> "null"]                                          *)
(*   int           [t |-> "int",  i |-> n]                                 *)
(*   str           [t |-> "str",  s |-> <<c1, ..., cn>>]  (characters)     *)
(*   list          [t |-> "list", l |-> <<v1, ..., vn>>]                   *)
(*   dict          [t |-> "map",  m |-> [keys -> values]]                  *)
(* A dict key is a Python str, i.e. a sequence of characters.              *)
(***************************************************************************)
EXTENDS Integers, Sequences, FiniteSets

VARIABLES
    store,      \* the playbook key-value store: key -> value (None when absent)
    deepdiff,   \* TRUE when "from deepdiff import DeepDiff" succeeds
    pc,         \* "idle": the harness is about to call; "done": a call ended
    call,       \* the arguments of the call that ended
    result,     \* what that call gave its caller: a return value or an exception
    trace,      \* what the call did, in order: log lines, store reads, operator calls
    caller,     \* the caller's own expected-value object after the call
    exit_service, \* tcex/exit/exit.py: the ExitService of an app, its message.tc
                \* files and the exit status of the process
    layout_json \* tcex/app_config/layout_json.py: the layout.json file on disk
                \* and the contents a LayoutJson object has cached

vars == <<store, deepdiff, pc, call, result, trace, caller, exit_service, layout_json>>

----------------------------------------------------------------------------
(* Python values *)

PyNone == [t |-> "null"]
PyInt(n) == [t |-> "int", i |-> n]
PyStr(s) == [t |-> "str", s |-> s]
PyList(l) == [t |-> "list", l |-> l]
PyDict(m) == [t |-> "map", m |-> m]

IsNull(v) == v.t = "null"
IsStr(v) == v.t = "str"
IsList(v) == v.t = "list"
IsMap(v) == v.t = "map"
IsInt(v) == v.t = "int"

EmptyMap == [k \in {} |-> PyNone]

\* d[k] = v on a dict
MapPut(m, k, v) == [x \in DOMAIN m \cup {k} |-> IF x = k THEN v ELSE m[x]]

\* del d[k], the key being present
MapDel(m, k) == [x \in DOMAIN m \ {k} |-> m[x]]

\* d.get(k): None when the key is absent
MapGet(m, k) == IF k \in DOMAIN m THEN m[k] ELSE PyNone

\* Python truthiness: "not v" is ~Truthy(v)
Truthy(v) ==
    CASE IsNull(v) -> FALSE
      [] IsInt(v) -> v.i # 0
      [] IsStr(v) -> Len(v.s) > 0
      [] IsList(v) -> Len(v.l) > 0
      [] IsMap(v) -> DOMAIN v.m # {}

\* the characters of the model's strings, in code point order
Alphabet ==
    << " ", "\"", ",", ".", "1", "2", "3", "4", ":", "[", "]", "a", "b", "x", "{", "}" >>

Digits == {"1", "2", "3", "4"}

DigitVal(c) == CASE c = "1" -> 1 [] c = "2" -> 2 [] c = "3" -> 3 [] c = "4" -> 4

\* ord(c), up to an order-preserving renumbering
Ord(c) == CHOOSE i \in 1..Len(Alphabet) : Alphabet[i] = c

Min(a, b) == IF a < b THEN a ELSE b

\* s[:n]
Prefix(s, n) == SubSeq(s, 1, Min(n, Len(s)))

Range(s) == {s[i] : i \in 1..Len(s)}

----------------------------------------------------------------------------
(* json.loads, over the strings of the model: digits, double-quoted strings, *)
(* arrays and objects, with no white space. Strings that hold a space or a  *)
(* dot are never parsed (they only appear in log previews).                 *)

ParseFail == [ok |-> FALSE, v |-> PyNone, n |-> 0]
ParseOk(v, n) == [ok |-> TRUE, v |-> v, n |-> n]

RECURSIVE DecimalVal(_)
DecimalVal(ds) ==
    IF Len(ds) = 0 THEN 0
    ELSE 10 * DecimalVal(SubSeq(ds, 1, Len(ds) - 1)) + DigitVal(ds[Len(ds)])

\* the first index from i on that holds no digit
RECURSIVE DigitsEnd(_, _)
DigitsEnd(s, i) ==
    IF i <= Len(s) /\ s[i] \in Digits THEN DigitsEnd(s, i + 1) ELSE i

\* the index of the first double quote from i on, 0 when there is none
RECURSIVE QuoteAt(_, _)
QuoteAt(s, i) ==
    IF i > Len(s) THEN 0
    ELSE IF s[i] = "\"" THEN i
    ELSE QuoteAt(s, i + 1)

RECURSIVE ParseValue(_, _)
RECURSIVE ParseElems(_, _, _)
RECURSIVE ParsePairs(_, _, _)

ParseValue(s, i) ==
    IF i > Len(s) THEN ParseFail
    ELSE IF s[i] \in Digits THEN
        LET j == DigitsEnd(s, i)
        IN  ParseOk(PyInt(DecimalVal(SubSeq(s, i, j - 1))), j)
    ELSE IF s[i] = "\"" THEN
        LET k == QuoteAt(s, i + 1)
        IN  IF k = 0 THEN ParseFail
            ELSE ParseOk(PyStr(SubSeq(s, i + 1, k - 1)), k + 1)
    ELSE IF s[i] = "[" THEN
        IF i + 1 <= Len(s) /\ s[i + 1] = "]" THEN ParseOk(PyList(<<>>), i + 2)
        ELSE ParseElems(s, i + 1, <<>>)
    ELSE IF s[i] = "{" THEN
        IF i + 1 <= Len(s) /\ s[i + 1] = "}" THEN ParseOk(PyDict(EmptyMap), i + 2)
        ELSE ParsePairs(s, i + 1, EmptyMap)
    ELSE ParseFail

ParseElems(s, i, acc) ==
    LET After(r) ==
            IF ~r.ok \/ r.n > Len(s) THEN ParseFail
            ELSE IF s[r.n] = "," THEN ParseElems(s, r.n + 1, Append(acc, r.v))
            ELSE IF s[r.n] = "]" THEN ParseOk(PyList(Append(acc, r.v)), r.n + 1)
            ELSE ParseFail
    IN  After(ParseValue(s, i))

ParsePairs(s, i, m) ==
    LET AfterValue(k, r) ==
            IF ~r.ok \/ r.n > Len(s) THEN ParseFail
            ELSE IF s[r.n] = "," THEN ParsePairs(s, r.n + 1, MapPut(m, k.v.s, r.v))
            ELSE IF s[r.n] = "}" THEN ParseOk(PyDict(MapPut(m, k.v.s, r.v)), r.n + 1)
            ELSE ParseFail
        AfterKey(k) ==
            IF ~k.ok \/ k.n > Len(s) \/ s[k.n] # ":" THEN ParseFail
            ELSE AfterValue(k, ParseValue(s, k.n + 1))
    IN  AfterKey(IF i <= Len(s) /\ s[i] = "\"" THEN ParseValue(s, i) ELSE ParseFail)

\* json.loads(s): the value, or ok = FALSE for JSONDecodeError
json_loads(s) ==
    LET r == ParseValue(s, 1)
    IN  IF r.ok /\ r.n = Len(s) + 1 THEN r ELSE ParseFail

----------------------------------------------------------------------------
(* What a call or an operator gives back: a return value or an exception,   *)
(* with the lines it logged.                                                *)

Ret(b, lines) == [exc |-> "none", val |-> b, log |-> lines]
Exc(name, lines) == [exc |-> name, val |-> FALSE, log |-> lines]

Log(level, tag) == [e |-> "log", level |-> level, tag |-> tag]
LogV(level, tag, v) == [e |-> "log", level |-> level, tag |-> tag, v |-> v]
LogI(level, tag, i) == [e |-> "log", level |-> level, tag |-> tag, idx |-> i]

\* **kwargs of a call: the two options the operators know
NoKwargs == [has_exclude |-> FALSE, exclude |-> <<>>,
             has_exclude_keys |-> FALSE, exclude_keys |-> <<>>]
KwExclude(ks) == [NoKwargs EXCEPT !.has_exclude = TRUE, !.exclude = ks]
KwExcludeKeys(ks) == [NoKwargs EXCEPT !.has_exclude_keys = TRUE, !.exclude_keys = ks]
KwEmpty(kw) == ~kw.has_exclude /\ ~kw.has_exclude_keys

----------------------------------------------------------------------------
(* The native comparisons (operator.eq, ne, lt, le, gt, ge), Python 3 *)

\* the first index at which two sequences differ, 0 when one is a prefix of the other
RECURSIVE FirstDiff(_, _, _)
FirstDiff(a, b, i) ==
    IF i > Len(a) \/ i > Len(b) THEN 0
    ELSE IF a[i] # b[i] THEN i
    ELSE FirstDiff(a, b, i + 1)

IntCmp(x, y) == IF x < y THEN "lt" ELSE IF x = y THEN "eq" ELSE "gt"

\* "lt", "eq" or "gt"; "err" where Python raises TypeError
RECURSIVE PyCmp(_, _)
PyCmp(a, b) ==
    IF IsInt(a) /\ IsInt(b) THEN IntCmp(a.i, b.i)
    ELSE IF IsStr(a) /\ IsStr(b) THEN
        LET d == FirstDiff(a.s, b.s, 1)
        IN  IF d = 0 THEN IntCmp(Len(a.s), Len(b.s))
            ELSE IntCmp(Ord(a.s[d]), Ord(b.s[d]))
    ELSE IF IsList(a) /\ IsList(b) THEN
        LET d == FirstDiff(a.l, b.l, 1)
        IN  IF d = 0 THEN IntCmp(Len(a.l), Len(b.l))
            ELSE PyCmp(a.l[d], b.l[d])
    ELSE "err"

\* operator.eq with the comparison inverted
operator_eq_inverted(app_data, test_data, kw) ==
    IF ~KwEmpty(kw) THEN Exc("TypeError", <<>>)
    ELSE Ret(app_data # test_data, <<>>)

operator_eq(app_data, test_data, kw) ==
    IF ~KwEmpty(kw) THEN Exc("TypeError", <<>>)
    ELSE Ret(app_data = test_data, <<>>)

operator_ne(app_data, test_data, kw) ==
    IF ~KwEmpty(kw) THEN Exc("TypeError", <<>>)
    ELSE Ret(app_data # test_data, <<>>)

Ordering(app_data, test_data, kw, accept) ==
    IF ~KwEmpty(kw) THEN Exc("TypeError", <<>>)
    ELSE LET c == PyCmp(app_data, test_data)
         IN  IF c = "err" THEN Exc("TypeError", <<>>) ELSE Ret(c \in accept, <<>>)

operator_lt(app_data, test_data, kw) == Ordering(app_data, test_data, kw, {"lt"})
operator_le(app_data, test_data, kw) == Ordering(app_data, test_data, kw, {"lt", "eq"})
operator_gt(app_data, test_data, kw) == Ordering(app_data, test_data, kw, {"gt"})
operator_ge(app_data, test_data, kw) == Ordering(app_data, test_data, kw, {"gt", "eq"})

----------------------------------------------------------------------------
(* Validator.operator_regex_match: re.match(test_data, app_data), for a     *)
(* pattern of literal characters (none of [ { .), which matches exactly     *)
(* when it is a prefix of the string.                                       *)

RegexLiteral(s) == Range(s) \cap {"[", "{", "."} = {}

operator_regex_match(app_data, test_data, kw) ==
    IF ~KwEmpty(kw) \/ ~IsStr(test_data) \/ ~IsStr(app_data) THEN Exc("TypeError", <<>>)
    ELSE Ret(Prefix(app_data.s, Len(test_data.s)) = test_data.s, <<>>)

----------------------------------------------------------------------------
(* Validator.operator_deep_diff. DeepDiff(a, b, ignore_order=True) is empty *)
(* exactly when the values have the same type and: scalars are equal, lists *)
(* hold the same elements (order and repetition ignored), dicts have the    *)
(* same keys with values that do not differ.                                *)

RECURSIVE DeepDiffEmpty(_, _)
DeepDiffEmpty(a, b) ==
    IF a.t # b.t THEN FALSE
    ELSE IF IsList(a) THEN
        /\ \A i \in 1..Len(a.l) : \E j \in 1..Len(b.l) : DeepDiffEmpty(a.l[i], b.l[j])
        /\ \A j \in 1..Len(b.l) : \E i \in 1..Len(a.l) : DeepDiffEmpty(a.l[i], b.l[j])
    ELSE IF IsMap(a) THEN
        /\ DOMAIN a.m = DOMAIN b.m
        /\ \A k \in DOMAIN a.m : DeepDiffEmpty(a.m[k], b.m[k])
    ELSE a = b

operator_deep_diff(app_data, test_data, kw, dd) ==
    IF ~KwEmpty(kw) THEN Exc("TypeError", <<>>)
    ELSE IF ~dd THEN Ret(FALSE, << Log("error", "Could not import DeepDiff module") >>)
    ELSE IF ~DeepDiffEmpty(app_data, test_data) THEN Ret(FALSE, << Log("info", "Diff") >>)
    ELSE Ret(TRUE, <<>>)

\* an operator's outcome together with the two objects it was given, as they
\* are after the call (operator_json_eq deletes keys from the dicts it is given)
WithArgs(r, a, t) == [exc |-> r.exc, val |-> r.val, log |-> r.log, app |-> a, test |-> t]

----------------------------------------------------------------------------
(* Validator.operator_json_eq *)

\* the loop "for e in kwargs.get('exclude', [])", from its n-th round on:
\* del app_data[e], del test_data[e] (KeyError passed over), del kwargs['exclude']
RECURSIVE ExcludeLoop(_, _, _, _)
ExcludeLoop(app, test, ex, n) ==
    IF n > Len(ex) THEN [exc |-> "none", app |-> app, test |-> test]
    ELSE IF ~IsMap(app) THEN [exc |-> "TypeError", app |-> app, test |-> test]
    ELSE LET app2 == IF ex[n] \in DOMAIN app.m THEN PyDict(MapDel(app.m, ex[n])) ELSE app
         IN  IF ~IsMap(test) THEN [exc |-> "TypeError", app |-> app2, test |-> test]
             ELSE LET test2 == IF ex[n] \in DOMAIN test.m
                               THEN PyDict(MapDel(test.m, ex[n])) ELSE test
                  IN  IF n > 1
                      THEN [exc |-> "KeyError", app |-> app2, test |-> test2]
                      ELSE ExcludeLoop(app2, test2, ex, n + 1)

operator_json_eq(app_data, test_data, kw, dd) ==
    LET \* after the loop x: a parsed string is a new object; a dict that was
        \* passed in is the object the loop deletes from
        Compare(x) ==
            WithArgs(IF x.exc # "none" THEN Exc(x.exc, <<>>)
                     ELSE operator_deep_diff(x.app, x.test, NoKwargs, dd),
                     IF IsStr(app_data) THEN app_data ELSE x.app,
                     IF IsStr(test_data) THEN test_data ELSE x.test)
        Loaded2(pa, pt) ==
            IF ~pa.ok \/ ~pt.ok
            THEN WithArgs(Exc("JSONDecodeError", <<>>), app_data, test_data)
            ELSE Compare(ExcludeLoop(pa.v, pt.v,
                                     IF kw.has_exclude THEN kw.exclude ELSE <<>>, 1))
    IN  Loaded2(IF IsStr(app_data) THEN json_loads(app_data.s) ELSE ParseOk(app_data, 0),
                IF IsStr(test_data) THEN json_loads(test_data.s) ELSE ParseOk(test_data, 0))

----------------------------------------------------------------------------
(* Validator.operator_keyvalue_eq *)

KeyField == <<"k", "e", "y">>

\* [kv for kv in data if kv.get('key') not in exclude_keys]
RECURSIVE FilterFrom(_, _, _, _)
FilterFrom(l, keys, i, acc) ==
    IF i > Len(l) THEN [exc |-> "none", v |-> PyList(acc)]
    ELSE IF ~IsMap(l[i]) THEN [exc |-> "AttributeError", v |-> PyNone]
    ELSE IF MapGet(l[i].m, KeyField) \in {PyStr(keys[j]) : j \in 1..Len(keys)}
         THEN FilterFrom(l, keys, i + 1, acc)
         ELSE FilterFrom(l, keys, i + 1, Append(acc, l[i]))

FilterKeyValues(data, keys) ==
    CASE IsList(data) -> FilterFrom(data.l, keys, 1, <<>>)
      [] IsStr(data) -> IF Len(data.s) = 0 THEN [exc |-> "none", v |-> PyList(<<>>)]
                        ELSE [exc |-> "AttributeError", v |-> PyNone]
      [] IsMap(data) -> IF DOMAIN data.m = {} THEN [exc |-> "none", v |-> PyList(<<>>)]
                        ELSE [exc |-> "AttributeError", v |-> PyNone]
      [] OTHER -> [exc |-> "TypeError", v |-> PyNone]

\* operator_keyvalue_eq dropping the excluded entries from app_data only
operator_keyvalue_eq_app_only(app_data, test_data, kw, dd) ==
    IF kw.has_exclude_keys THEN
        LET Filtered(fa) ==
                IF fa.exc # "none" THEN Exc(fa.exc, <<>>)
                ELSE operator_deep_diff(fa.v, test_data,
                                        [kw EXCEPT !.has_exclude_keys = FALSE], dd)
        IN  Filtered(FilterKeyValues(app_data, kw.exclude_keys))
    ELSE operator_deep_diff(app_data, test_data, kw, dd)

operator_keyvalue_eq(app_data, test_data, kw, dd) ==
    IF kw.has_exclude_keys THEN
        LET fa == FilterKeyValues(app_data, kw.exclude_keys)
            ft == FilterKeyValues(test_data, kw.exclude_keys)
        IN  IF fa.exc # "none" THEN Exc(fa.exc, <<>>)
            ELSE IF ft.exc # "none" THEN Exc(ft.exc, <<>>)
            ELSE operator_deep_diff(fa.v, ft.v, [kw EXCEPT !.has_exclude_keys = FALSE], dd)
    ELSE operator_deep_diff(app_data, test_data, kw, dd)

----------------------------------------------------------------------------
(* Validator.get_operator: the operator table *)

OpNames ==
    { <<"d", "d">>, <<"e", "q">>, <<"=">>, <<"l", "e">>, <<"<", "=">>, <<"l", "t">>,
      <<"<">>, <<"g", "e">>, <<">", "=">>, <<"g", "t">>, <<">">>, <<"j", "e", "q">>,
      <<"j", "s", "o", "n", "_", "e", "q">>, <<"k", "v", "e", "q">>,
      <<"k", "e", "y", "v", "a", "l", "u", "e", "_", "e", "q">>, <<"n", "e">>,
      <<"!", "=">>, <<"r", "e", "x">> }

\* the dict "operators" of get_operator: the function it holds for a name,
\* "None" for a name it does not hold
operators(op) ==
    CASE op = <<"d", "d">> -> "operator_deep_diff"
      [] op = <<"e", "q">> -> "operator.eq"
      [] op = <<"=">> -> "operator.eq"
      [] op = <<"l", "e">> -> "operator.le"
      [] op = <<"<", "=">> -> "operator.le"
      [] op = <<"l", "t">> -> "operator.lt"
      [] op = <<"<">> -> "operator.lt"
      [] op = <<"g", "e">> -> "operator.ge"
      [] op = <<">", "=">> -> "operator.ge"
      [] op = <<"g", "t">> -> "operator.gt"
      [] op = <<">">> -> "operator.gt"
      [] op = <<"j", "e", "q">> -> "operator_json_eq"
      [] op = <<"j", "s", "o", "n", "_", "e", "q">> -> "operator_json_eq"
      [] op = <<"k", "v", "e", "q">> -> "operator_keyvalue_eq"
      [] op = <<"k", "e", "y", "v", "a", "l", "u", "e", "_", "e", "q">> -> "operator_keyvalue_eq"
      [] op = <<"n", "e">> -> "operator.ne"
      [] op = <<"!", "=">> -> "operator.ne"
      [] op = <<"r", "e", "x">> -> "operator_regex_match"
      [] OTHER -> "None"

\* get_operator looking the name up without regard to case
get_operator_any_case(op) ==
    IF op = <<"E", "Q">> THEN operators(<<"e", "q">>) ELSE operators(op)

\* Validator.get_operator: operators.get(op, None)
get_operator(op) == operators(op)

\* fn(app_data, test_data, **kwargs) for a function of the table
CallOperator(fn, app_data, test_data, kw, dd) ==
    CASE fn = "operator.eq" -> WithArgs(operator_eq(app_data, test_data, kw), app_data, test_data)
      [] fn = "operator.ne" -> WithArgs(operator_ne(app_data, test_data, kw), app_data, test_data)
      [] fn = "operator.lt" -> WithArgs(operator_lt(app_data, test_data, kw), app_data, test_data)
      [] fn = "operator.le" -> WithArgs(operator_le(app_data, test_data, kw), app_data, test_data)
      [] fn = "operator.gt" -> WithArgs(operator_gt(app_data, test_data, kw), app_data, test_data)
      [] fn = "operator.ge" -> WithArgs(operator_ge(app_data, test_data, kw), app_data, test_data)
      [] fn = "operator_regex_match" ->
            WithArgs(operator_regex_match(app_data, test_data, kw), app_data, test_data)
      [] fn = "operator_deep_diff" ->
            WithArgs(operator_deep_diff(app_data, test_data, kw, dd), app_data, test_data)
      [] fn = "operator_keyvalue_eq" ->
            WithArgs(operator_keyvalue_eq(app_data, test_data, kw, dd), app_data, test_data)
      [] fn = "operator_json_eq" -> operator_json_eq(app_data, test_data, kw, dd)

----------------------------------------------------------------------------
(* difflib.ndiff(a, b), as validate_log_output reads it: the first character *)
(* of each line it yields ("-", "+" or " "), and the exception that ends it. *)
(* Ranges are 1-based and inclusive; lo > hi is the empty range.             *)

\* the items ndiff sees: the characters of a str, the elements of a list
Items(v) ==
    CASE IsStr(v) -> [i \in 1..Len(v.s) |-> PyStr(<<v.s[i]>>)]
      [] IsList(v) -> v.l
      [] OTHER -> <<>>

Hashable(x) == ~IsList(x) /\ ~IsMap(x)

RECURSIVE MatchLen(_, _, _, _, _, _)
MatchLen(a, b, i, j, ahi, bhi) ==
    IF i <= ahi /\ j <= bhi /\ a[i] = b[j]
    THEN 1 + MatchLen(a, b, i + 1, j + 1, ahi, bhi)
    ELSE 0

SetMax(S) == CHOOSE x \in S : \A y \in S : y <= x
SetMin(S) == CHOOSE x \in S : \A y \in S : x <= y

\* SequenceMatcher.find_longest_match: <<i, j, k>>, the longest block
\* a[i..i+k-1] = b[j..j+k-1], of those the one that starts earliest in a, and of
\* those the one that starts earliest in b
find_longest_match(a, b, alo, ahi, blo, bhi) ==
    LET k == SetMax({0} \cup {MatchLen(a, b, i, j, ahi, bhi) : i \in alo..ahi, j \in blo..bhi})
    IN  IF k = 0 THEN <<alo, blo, 0>>
        ELSE LET i == SetMin({x \in alo..ahi :
                                \E y \in blo..bhi : MatchLen(a, b, x, y, ahi, bhi) = k})
                 j == SetMin({y \in blo..bhi : MatchLen(a, b, i, y, ahi, bhi) = k})
             IN  <<i, j, k>>

Block(tag, alo, ahi, blo, bhi) ==
    [tag |-> tag, alo |-> alo, ahi |-> ahi, blo |-> blo, bhi |-> bhi]

\* SequenceMatcher.get_opcodes over a[alo..ahi], b[blo..bhi]
RECURSIVE get_opcodes(_, _, _, _, _, _)
get_opcodes(a, b, alo, ahi, blo, bhi) ==
    IF alo > ahi /\ blo > bhi THEN <<>>
    ELSE IF alo > ahi THEN << Block("insert", alo, ahi, blo, bhi) >>
    ELSE IF blo > bhi THEN << Block("delete", alo, ahi, blo, bhi) >>
    ELSE LET Around(m) ==
                 IF m[3] = 0 THEN << Block("replace", alo, ahi, blo, bhi) >>
                 ELSE get_opcodes(a, b, alo, m[1] - 1, blo, m[2] - 1)
                      \o << Block("equal", m[1], m[1] + m[3] - 1, m[2], m[2] + m[3] - 1) >>
                      \o get_opcodes(a, b, m[1] + m[3], ahi, m[2] + m[3], bhi)
         IN  Around(find_longest_match(a, b, alo, ahi, blo, bhi))

\* the number of matched characters of two strings (SequenceMatcher.ratio's M)
RECURSIVE MatchedSize(_)
MatchedSize(ops) ==
    IF Len(ops) = 0 THEN 0
    ELSE (IF ops[1].tag = "equal" THEN ops[1].ahi - ops[1].alo + 1 ELSE 0)
         + MatchedSize(Tail(ops))

\* Differ._fancy_replace takes two lines for similar when their ratio 2M/T is
\* above 0.74
Similar(x, y) ==
    200 * MatchedSize(get_opcodes(x.s, y.s, 1, Len(x.s), 1, Len(y.s)))
        > 74 * (Len(x.s) + Len(y.s))

Repeat(c, n) == [i \in 1..n |-> c]

\* the lines of one opcode. A replace block goes through _fancy_replace, which
\* raises TypeError on an item that is no str and, no two items being similar,
\* ends in _plain_replace: the shorter side first.
BlockLines(a, b, o) ==
    LET na == o.ahi - o.alo + 1
        nb == o.bhi - o.blo + 1
    IN  CASE o.tag = "equal" -> [exc |-> "none", tags |-> Repeat(" ", na)]
          [] o.tag = "delete" -> [exc |-> "none", tags |-> Repeat("-", na)]
          [] o.tag = "insert" -> [exc |-> "none", tags |-> Repeat("+", nb)]
          [] o.tag = "replace" ->
                IF \E i \in o.alo..o.ahi : ~IsStr(a[i]) THEN [exc |-> "TypeError", tags |-> <<>>]
                ELSE IF \E j \in o.blo..o.bhi : ~IsStr(b[j])
                     THEN [exc |-> "TypeError", tags |-> <<>>]
                ELSE IF nb < na
                     THEN [exc |-> "none", tags |-> Repeat("+", nb) \o Repeat("-", na)]
                     ELSE [exc |-> "none", tags |-> Repeat("-", na) \o Repeat("+", nb)]

RECURSIVE RenderBlocks(_, _, _, _)
RenderBlocks(a, b, ops, acc) ==
    IF Len(ops) = 0 THEN [exc |-> "none", tags |-> acc]
    ELSE LET Rest(r) ==
                 IF r.exc # "none" THEN [exc |-> r.exc, tags |-> acc]
                 ELSE RenderBlocks(a, b, Tail(ops), acc \o r.tags)
         IN  Rest(BlockLines(a, b, ops[1]))

\* a replace block with two similar lines takes _fancy_replace's intraline
\* marking, which the model leaves out: the calls are kept away from such pairs
HasSimilarLines(app_data, test_data) ==
    /\ app_data.t \in {"str", "list"}
    /\ test_data.t \in {"str", "list"}
    /\ LET a == Items(app_data)
           b == Items(test_data)
       IN  /\ \A i \in 1..Len(a) : Hashable(a[i])
           /\ \A j \in 1..Len(b) : Hashable(b[j])
           /\ \E o \in Range(get_opcodes(a, b, 1, Len(a), 1, Len(b))) :
                /\ o.tag = "replace"
                /\ \A i \in o.alo..o.ahi : IsStr(a[i])
                /\ \A j \in o.blo..o.bhi : IsStr(b[j])
                /\ \E i \in o.alo..o.ahi, j \in o.blo..o.bhi : Similar(a[i], b[j])

\* a non-empty str or list against a non-empty dict: the matcher pairs the
\* items with the dict's keys; the model leaves this case out as well
SeqAgainstDict(app_data, test_data) ==
    /\ app_data.t \in {"str", "list"} /\ Truthy(app_data)
    /\ IsMap(test_data) /\ Truthy(test_data)

ndiff(app_data, test_data) ==
    LET a == Items(app_data)
        b == Items(test_data)
    IN  IF IsNull(app_data) /\ IsNull(test_data)
        THEN [exc |-> "AttributeError", tags |-> <<>>]
        ELSE IF IsNull(app_data) \/ IsInt(app_data) \/ IsNull(test_data) \/ IsInt(test_data)
        THEN [exc |-> "TypeError", tags |-> <<>>]
        \* the items of b are hashed first, then those of a
        ELSE IF \E j \in 1..Len(b) : ~Hashable(b[j])
        THEN [exc |-> "TypeError", tags |-> <<>>]
        ELSE IF IsMap(app_data) THEN
            \* a[0] on a dict raises KeyError; an empty dict is an empty sequence
            IF Truthy(app_data) \/ (IsMap(test_data) /\ Truthy(test_data))
            THEN [exc |-> "KeyError", tags |-> <<>>]
            ELSE [exc |-> "none", tags |-> Repeat("+", Len(b))]
        ELSE IF \E i \in 1..Len(a) : ~Hashable(a[i])
        THEN [exc |-> "TypeError", tags |-> <<>>]
        ELSE IF IsMap(test_data) THEN
            IF Truthy(test_data) THEN [exc |-> "KeyError", tags |-> <<>>]
            ELSE [exc |-> "none", tags |-> Repeat("-", Len(a))]
        ELSE RenderBlocks(a, b, get_opcodes(a, b, 1, Len(a), 1, Len(b)), <<>>)

----------------------------------------------------------------------------
(* Redis *)

\* Redis.__init__: truncate=50, self.max_diff = 10
truncate == 50
max_diff == 10

Ellipsis == <<" ", ".", ".", ".">>

HasLen(v) == IsStr(v) \/ IsList(v) \/ IsMap(v)
PyLen(v) == CASE IsStr(v) -> Len(v.s) [] IsList(v) -> Len(v.l) [] IsMap(v) -> Cardinality(DOMAIN v.m)

\* the preview of app_data (validate_log_output, "if app_data is not None and passed")
TruncateAppData(app_data, passed) ==
    IF IsNull(app_data) \/ ~passed THEN app_data
    ELSE IF IsStr(app_data) /\ Len(app_data.s) > truncate
         THEN PyStr(Prefix(app_data.s, truncate))
    ELSE IF IsList(app_data)
         THEN PyList([i \in 1..Len(app_data.l) |->
                LET d == app_data.l[i]
                IN  IF IsStr(d) /\ Len(d.s) > truncate
                    THEN PyStr(Prefix(d.s, truncate) \o Ellipsis)
                    ELSE d])
    ELSE app_data

\* one round of "for u in test_data": the test is on app_data, not on u, and
\* len(u) raises TypeError for an item without a length; u[:truncate] raises
\* on a dict. The items of a list are scalars or dicts.
TruncateItem(app_data, u) ==
    IF ~IsStr(app_data) THEN [exc |-> "none", v |-> u]
    ELSE IF ~HasLen(u) THEN [exc |-> "TypeError", v |-> u]
    ELSE IF PyLen(u) <= truncate THEN [exc |-> "none", v |-> u]
    ELSE CASE IsStr(u) -> [exc |-> "none", v |-> PyStr(Prefix(u.s, truncate) \o Ellipsis)]
           [] IsMap(u) -> [exc |-> "TypeError", v |-> u]

\* the preview of test_data ("if test_data is not None and passed"); app_data is
\* the preview of the app data
TruncateTestData(app_data, test_data, passed) ==
    IF IsNull(test_data) \/ ~passed THEN [exc |-> "none", v |-> test_data]
    ELSE IF IsStr(test_data) /\ Len(test_data.s) > truncate
         THEN [exc |-> "none", v |-> PyStr(Prefix(test_data.s, truncate))]
    ELSE IF IsList(test_data) THEN
         LET items == [i \in 1..Len(test_data.l) |-> TruncateItem(app_data, test_data.l[i])]
         IN  IF \E i \in 1..Len(items) : items[i].exc # "none"
             THEN [exc |-> "TypeError", v |-> test_data]
             ELSE [exc |-> "none", v |-> PyList([i \in 1..Len(items) |-> items[i].v])]
    ELSE [exc |-> "none", v |-> test_data]

\* "for i, diff in enumerate(difflib.ndiff(app_data, test_data))", from line i
\* (counted from 0) on, diff_count differences having been counted
RECURSIVE DiffLoop(_, _, _, _)
DiffLoop(tags, i, diff_count, acc) ==
    IF i >= Len(tags) THEN acc
    ELSE IF tags[i + 1] = " " THEN DiffLoop(tags, i + 1, diff_count, acc)
    ELSE LET line == IF tags[i + 1] = "-"
                     THEN LogI("info", "Diff: Missing data at index", i)
                     ELSE LogI("info", "Diff: Extra data at index", i)
         IN  IF diff_count > max_diff
             THEN acc \o << line, Log("info", "Max number of differences reached.") >>
             ELSE DiffLoop(tags, i + 1, diff_count + 1, Append(acc, line))

EqNe == { <<"e", "q">>, <<"n", "e">> }

\* Redis.validate_log_output: the lines logged, or the exception raised
validate_log_output(passed, app_data, test_data, op) ==
    LET Lines(app, tst) ==
            IF tst.exc # "none" THEN [exc |-> tst.exc, log |-> <<>>]
            ELSE [exc |-> "none",
                  log |-> << LogV("info", "App Data", app),
                             LogV("info", "Operator", PyStr(op)),
                             LogV("info", "Test Data", tst.v) >>
                          \o (IF passed THEN << Log("info", "Results: Passed") >>
                              ELSE << Log("error", "Results: Failed") >>
                                   \o (IF ~IsNull(app) /\ ~IsNull(tst.v) /\ op \in EqNe
                                       THEN DiffLoop(ndiff(app, tst.v).tags, 0, 0, <<>>)
                                       ELSE <<>>))]
        Previews(app) == Lines(app, TruncateTestData(app, test_data, passed))
    IN  Previews(TruncateAppData(app_data, passed))

ReadEvent(fn, key) == [e |-> "read", fn |-> fn, key |-> key]
OpEvent(fn) == [e |-> "op", fn |-> fn]

EndsWith(s, suffix) ==
    /\ Len(s) >= Len(suffix)
    /\ SubSeq(s, Len(s) - Len(suffix) + 1, Len(s)) = suffix

\* the playbook's read, read_binary and read_binary_array: the stored value,
\* None for a key the store does not hold
StoreRead(st, key) == IF key \in DOMAIN st THEN st[key] ELSE PyNone

\* the fetch Redis.data picks for a variable
FetchMode(variable) ==
    IF EndsWith(variable, <<"B", "i", "n", "a", "r", "y">>) THEN "read_binary"
    ELSE IF EndsWith(variable, <<"B", "i", "n", "a", "r", "y", "A", "r", "r", "a", "y">>)
         THEN "read_binary_array"
    ELSE "read"

\* "op = op or 'eq'"
EffectiveOp(op_arg) == IF Truthy(op_arg) THEN op_arg.s ELSE <<"e", "q">>

\* Redis.data, "if not variable": the NoneError return
DataNoVariable(test_data) ==
    [exc |-> "none", val |-> FALSE, test |-> test_data,
     trace |-> << Log("error", "NoneError: Redis Variable not provided") >>]

\* Redis.data, "if not self.provider.get_operator(op)": the invalid operator return
DataInvalidOperator(op, test_data) ==
    [exc |-> "none", val |-> FALSE, test |-> test_data,
     trace |-> << LogV("error", "Invalid operator provided", PyStr(op)) >>]

\* Redis.data from the fetch on: read the variable, call the operator, log
DataFetchAndCompare(st, dd, variable, test_data, op, kw) ==
    LET \* after the operator gave r and validate_log_output gave out
        Logged(r, before, out) ==
            IF out.exc # "none"
            THEN [exc |-> out.exc, val |-> FALSE, test |-> r.test, trace |-> before]
            ELSE [exc |-> "none", val |-> r.val, test |-> r.test,
                  trace |-> before \o out.log
                            \o << LogV("debug", "redis-cli hget", variable) >>]
        Compared(fn, r) ==
            IF r.exc # "none"
            THEN [exc |-> r.exc, val |-> FALSE, test |-> r.test,
                  trace |-> << ReadEvent(FetchMode(variable.s), variable.s), OpEvent(fn) >>
                            \o r.log]
            ELSE Logged(r,
                        << ReadEvent(FetchMode(variable.s), variable.s), OpEvent(fn) >>
                            \o r.log \o << LogV("info", "----------", variable) >>,
                        validate_log_output(r.val, r.app, r.test, op))
        Fetched(fn, app_data) == Compared(fn, CallOperator(fn, app_data, test_data, kw, dd))
    IN  Fetched(get_operator(op), StoreRead(st, variable.s))

\* Redis.data reading the variable before it looks at the operator
Redis_data_fetch_first(st, dd, variable, test_data, op_arg, kw) ==
    IF ~Truthy(variable) THEN DataNoVariable(test_data)
    ELSE IF get_operator(EffectiveOp(op_arg)) = "None"
    THEN [DataInvalidOperator(EffectiveOp(op_arg), test_data) EXCEPT
             !.trace = <<ReadEvent(FetchMode(variable.s), variable.s)>> \o @]
    ELSE DataFetchAndCompare(st, dd, variable, test_data, EffectiveOp(op_arg), kw)

\* Redis.data looking at the operator before it looks at the variable
Redis_data_operator_first(st, dd, variable, test_data, op_arg, kw) ==
    IF get_operator(EffectiveOp(op_arg)) = "None"
    THEN DataInvalidOperator(EffectiveOp(op_arg), test_data)
    ELSE IF ~Truthy(variable) THEN DataNoVariable(test_data)
    ELSE DataFetchAndCompare(st, dd, variable, test_data, EffectiveOp(op_arg), kw)

\* Redis.data(variable, test_data, op, **kwargs): the result, the events in
\* order, and the caller's test_data afterwards
Redis_data(st, dd, variable, test_data, op_arg, kw) ==
    IF ~Truthy(variable) THEN DataNoVariable(test_data)
    ELSE IF get_operator(EffectiveOp(op_arg)) = "None"
    THEN DataInvalidOperator(EffectiveOp(op_arg), test_data)
    ELSE DataFetchAndCompare(st, dd, variable, test_data, EffectiveOp(op_arg), kw)

----------------------------------------------------------------------------
(* The values and calls the model is checked on *)

\* the longest run of one character in a stored or expected string
MaxRun == 6
\* the longest list given as the exclude option
MaxExclude == 2

Run(c, n) == PyStr(Repeat(c, n))
KV(k, v) == PyDict(MapPut(MapPut(EmptyMap, KeyField, PyStr(k)), <<"v", "a", "l", "u", "e">>, v))
Dict1(k, v) == PyDict(MapPut(EmptyMap, k, v))
Dict2(k1, v1, k2, v2) == PyDict(MapPut(MapPut(EmptyMap, k1, v1), k2, v2))

VarPlain == <<"v">>
VarMissing == <<"m">>
VarBinary == <<"v", "B", "i", "n", "a", "r", "y">>
VarBinaryArray == <<"v", "B", "i", "n", "a", "r", "y", "A", "r", "r", "a", "y">>

\* what the app may have written to the variable "v"
StoredValues ==
    { PyStr(<<"[", "1", ",", "2", ",", "3", "]">>),
      PyStr(<<"[", "1", ",", "2">>),
      PyStr(<<"{", "\"", "a", "\"", ":", "1", ",", "\"", "b", "\"", ":", "2", "}">>),
      PyStr(<<"a", "b">>),
      Run("a", truncate + 1),
      PyList(<<PyInt(1), PyInt(2), PyInt(3)>>),
      PyList(<<PyStr(<<"a">>), PyStr(<<"b">>)>>),
      PyList(<<Run("a", truncate + 1), PyStr(<<"b">>)>>),
      Dict2(<<"a">>, PyInt(1), <<"b">>, PyInt(2)),
      PyList(<<KV(<<"a">>, PyInt(1)), KV(<<"b">>, PyInt(2))>>) }
    \cup {Run("a", n) : n \in {MaxRun - 1, MaxRun}}

Stores ==
    { [k \in {VarPlain, VarBinary, VarBinaryArray} |->
          CASE k = VarPlain -> v
            [] k = VarBinary -> PyStr(<<"a", "b">>)
            [] k = VarBinaryArray -> PyList(<<PyStr(<<"a">>), PyStr(<<"b">>)>>)]
      : v \in StoredValues }

ExpectedValues ==
    { PyNone, PyInt(1),
      PyStr(<<"x">>), PyStr(<<"a">>), PyStr(<<"a", "b">>),
      PyStr(<<"[", "3", ",", "2", ",", "1", "]">>),
      PyStr(<<"{", "\"", "a", "\"", ":", "1">>),
      Run("a", truncate + 1),
      PyList(<<PyInt(3), PyInt(2), PyInt(1)>>),
      PyList(<<PyInt(1), PyInt(2), PyInt(4)>>),
      PyList(<<PyInt(1), PyInt(2), PyInt(3)>>),
      PyList(<<PyStr(<<"b">>), PyStr(<<"a">>)>>),
      PyList(<<Run("a", truncate + 1), PyStr(<<"b">>)>>),
      Dict2(<<"a">>, PyInt(1), <<"b">>, PyInt(2)),
      Dict2(<<"a">>, PyInt(1), <<"b">>, PyInt(3)),
      Dict1(<<"a">>, PyInt(1)),
      PyList(<<KV(<<"a">>, PyInt(1)), KV(<<"b">>, PyInt(3))>>) }
    \cup {Run("b", n) : n \in {MaxRun - 1, MaxRun}}

UnknownOps == { <<"u", "n", "k", "n", "o", "w", "n", "_", "o", "p">>, <<"E", "Q">> }

\* op as passed: a name, '' or None (left out)
OpArgs == {PyStr(n) : n \in OpNames \cup UnknownOps \cup {<<>>}} \cup {PyNone}

RECURSIVE SeqsUpTo(_, _)
SeqsUpTo(S, n) ==
    IF n = 0 THEN {<<>>}
    ELSE LET shorter == SeqsUpTo(S, n - 1)
         IN  shorter \cup {Append(q, x) : q \in shorter, x \in S}

KwargsChoices ==
    {NoKwargs, KwExcludeKeys(<< <<"b">> >>)}
    \cup {KwExclude(ks) : ks \in SeqsUpTo({<<"b">>, <<"x">>}, MaxExclude)}

DataCallRec(variable, test_data, op, kw) ==
    [fn |-> "data", variable |-> variable, test_data |-> test_data, op |-> op, kw |-> kw]

\* the calls of Redis.data: every expected value, operator and option on the
\* variable "v"; every operator on the other variables
DataCalls ==
    {DataCallRec(PyStr(VarPlain), t, o, kw) :
        t \in ExpectedValues, o \in OpArgs, kw \in KwargsChoices}
    \cup {DataCallRec(v, t, o, NoKwargs) :
            v \in {PyNone, PyStr(<<>>), PyStr(VarMissing), PyStr(VarBinary),
                   PyStr(VarBinaryArray)},
            t \in {PyNone, PyStr(<<"x">>), PyStr(<<"a", "b">>)},
            o \in OpArgs}

\* the calls the model covers: a regex of literal characters, and no diff of
\* similar lines or of a sequence against a dict
Covered(st, c) ==
    LET app_data == IF Truthy(c.variable) THEN StoreRead(st, c.variable.s) ELSE PyNone
        op == EffectiveOp(c.op)
    IN  /\ (get_operator(op) = "operator_regex_match" /\ IsStr(c.test_data))
                => RegexLiteral(c.test_data.s)
        /\ op \in EqNe => /\ ~HasSimilarLines(app_data, c.test_data)
                          /\ ~SeqAgainstDict(app_data, c.test_data)

----------------------------------------------------------------------------
(* ThreatConnect. Names, attribute values, tags and labels are atoms (TLA+   *)
(* strings); ratings and confidences are Python values. In a log line a      *)
(* value appears as format() prints it, None as "None".                      *)

\* the two type sets of the tcex instance, and a type in neither
indicator_types == {"Address"}
group_types == {"Adversary", "Document", "Report"}

RemoveAt(q, i) == SubSeq(q, 1, i - 1) \o SubSeq(q, i + 1, Len(q))
IndexOf(q, x) == SetMin({i \in 1..Len(q) : q[i] = x})

\* an insertion-ordered dict of atoms: its keys in order and its mapping
EmptyDict == [keys |-> <<>>, m |-> [k \in {} |-> ""]]
DictSet(d, k, v) ==
    [keys |-> IF k \in DOMAIN d.m THEN d.keys ELSE Append(d.keys, k),
     m |-> [x \in DOMAIN d.m \cup {k} |-> IF x = k THEN v ELSE d.m[x]]]
DictPop(d, k) ==
    [keys |-> RemoveAt(d.keys, IndexOf(d.keys, k)),
     m |-> [x \in DOMAIN d.m \ {k} |-> d.m[x]]]
\* format(d.get(k))
DictGetText(d, k) == IF k \in DOMAIN d.m THEN d.m[k] ELSE "None"

\* "for attribute in ...: d[attribute.get('type')] = attribute.get('value')"
RECURSIVE AttributeDict(_, _)
AttributeDict(attrs, d) ==
    IF Len(attrs) = 0 THEN d
    ELSE AttributeDict(Tail(attrs), DictSet(d, attrs[1].type, attrs[1].value))

CmpEvent(facet) == [e |-> "cmp", facet |-> facet]
FetchEvent(key) == [e |-> "fetch", key |-> key]

\* the positions of the lines of one kind in a log, and the n-th of them
LinesIn(log, kind) == {i \in 1..Len(log) : log[i].kind = kind}
NthLine(log, kind, n) ==
    CHOOSE i \in LinesIn(log, kind) : Cardinality({j \in LinesIn(log, kind) : j <= i}) = n

\* ThreatConnect.compare_dicts, from the i-th key of expected on
RECURSIVE compare_dicts_from(_, _, _, _, _, _)
compare_dicts_from(expected, actual, error_type, i, valid, lines) ==
    IF i > Len(expected.keys) THEN
        \* "for item in actual.items()": item is a (key, value) pair, and
        \* actual.get(item) is None
        [valid |-> valid /\ Len(actual.keys) = 0,
         log |-> lines \o [n \in 1..Len(actual.keys) |->
                    [e |-> "log", level |-> "error", tag |-> error_type,
                     kind |-> "was in actual results but not in expected results",
                     key |-> <<actual.keys[n], actual.m[actual.keys[n]]>>,
                     actual |-> "None"]]]
    ELSE LET item == expected.keys[i]
         IN  IF item \in DOMAIN actual.m THEN
                 IF expected.m[item] = actual.m[item]
                 THEN compare_dicts_from(expected, DictPop(actual, item), error_type,
                                         i + 1, valid, lines)
                 ELSE compare_dicts_from(expected, DictPop(actual, item), error_type,
                        i + 1, FALSE,
                        Append(lines,
                            [e |-> "log", level |-> "error", tag |-> error_type,
                             kind |-> "did not match", key |-> item,
                             expected |-> DictGetText(expected, "item"),
                             actual |-> actual.m[item]]))
             ELSE compare_dicts_from(expected, actual, error_type, i + 1, FALSE,
                    Append(lines,
                        [e |-> "log", level |-> "error", tag |-> error_type,
                         kind |-> "was in expected results but not in actual results",
                         key |-> item, expected |-> expected.m[item]]))

\* compare_dicts leaving a key with unequal values in actual, where the loop
\* over what is left of actual reports it again
compare_dicts_mismatch_kept(expected, actual, error_type) ==
    LET Again(r) ==
            [valid |-> r.valid,
             log |-> r.log \o
                 [n \in 1..Cardinality(LinesIn(r.log, "did not match")) |->
                    [e |-> "log", level |-> "error", tag |-> error_type,
                     kind |-> "was in actual results but not in expected results",
                     key |-> << r.log[NthLine(r.log, "did not match", n)].key,
                                r.log[NthLine(r.log, "did not match", n)].actual >>,
                     actual |-> "None"]]]
    IN  Again(compare_dicts_from(expected, actual, error_type, 1, TRUE, <<>>))

compare_dicts(expected, actual, error_type) ==
    compare_dicts_from(expected, actual, error_type, 1, TRUE, <<>>)

\* ThreatConnect.compare_lists, from the i-th item of expected on
RECURSIVE compare_lists_from(_, _, _, _, _, _)
compare_lists_from(expected, actual, error_type, i, valid, lines) ==
    IF i > Len(expected) THEN
        [valid |-> valid /\ Len(actual) = 0,
         log |-> lines \o [n \in 1..Len(actual) |->
                    [e |-> "log", level |-> "error", tag |-> error_type,
                     kind |-> "was in actual results but not in expected results",
                     key |-> actual[n]]]]
    ELSE IF expected[i] \in Range(actual)
         THEN compare_lists_from(expected, RemoveAt(actual, IndexOf(actual, expected[i])),
                                 error_type, i + 1, valid, lines)
         ELSE compare_lists_from(expected, actual, error_type, i + 1, FALSE,
                Append(lines,
                    [e |-> "log", level |-> "error", tag |-> error_type,
                     kind |-> "was in expected results but not in actual results",
                     key |-> expected[i]]))

compare_lists(expected, actual, error_type) ==
    compare_lists_from(expected, actual, error_type, 1, TRUE, <<>>)

\* _response_attributes, _response_tags, _response_labels: ti_response is the
\* remote entity, empty when the response body holds none
response_attributes(remote, tc_entity) ==
    IF ~remote.present THEN [valid |-> TRUE, log |-> <<>>]
    ELSE LET r == compare_dicts(AttributeDict(tc_entity.attribute, EmptyDict),
                                AttributeDict(remote.attribute, EmptyDict),
                                "AttributeError")
         IN  [valid |-> r.valid, log |-> <<CmpEvent("attributes")>> \o r.log]

response_tags(remote, tc_entity) ==
    IF ~remote.present THEN [valid |-> TRUE, log |-> <<>>]
    ELSE LET r == compare_lists(tc_entity.tag, remote.tag, "TagError")
         IN  [valid |-> r.valid, log |-> <<CmpEvent("tags")>> \o r.log]

\* the labels compared only when the tags were found equal
response_labels_after_tags(remote, tc_entity) ==
    IF ~remote.present THEN [valid |-> TRUE, log |-> <<>>]
    ELSE IF ~response_tags(remote, tc_entity).valid THEN [valid |-> FALSE, log |-> <<>>]
    ELSE [valid |-> compare_lists(tc_entity.securityLabel, remote.securityLabel,
                                  "SecurityLabelError").valid,
          log |-> <<CmpEvent("labels")>>
                  \o compare_lists(tc_entity.securityLabel, remote.securityLabel,
                                   "SecurityLabelError").log]

response_labels(remote, tc_entity) ==
    IF ~remote.present THEN [valid |-> TRUE, log |-> <<>>]
    ELSE LET r == compare_lists(tc_entity.securityLabel, remote.securityLabel,
                                "SecurityLabelError")
         IN  [valid |-> r.valid, log |-> <<CmpEvent("labels")>> \o r.log]

\* hashlib.sha256 of a file's content, over the contents of the model
Sha256(content) == CASE content = "c1" -> "h1" [] content = "c2" -> "h2"

NoFile == [given |-> FALSE, content |-> ""]
File(c) == [given |-> TRUE, content |-> c]

\* ThreatConnect._file taking any file of a Document or Report, whatever its hash
file_check_no_hash(ti_entity, remote_hash, file) ==
    IF ti_entity.api_sub_type \in {"Document", "Report"} THEN
        IF ~file.given THEN [exc |-> "TypeError", valid |-> FALSE, log |-> <<>>]
        ELSE [exc |-> "none", valid |-> TRUE, log |-> <<CmpEvent("file")>>]
    ELSE [exc |-> "none", valid |-> FALSE,
          log |-> << [e |-> "log", level |-> "error", tag |-> "TypeError",
                      sub_type |-> ti_entity.api_sub_type] >>]

\* ThreatConnect._file; open(None) raises TypeError
file_check(ti_entity, remote_hash, file) ==
    IF ti_entity.api_sub_type \in {"Document", "Report"} THEN
        IF ~file.given THEN [exc |-> "TypeError", valid |-> FALSE, log |-> <<>>]
        ELSE IF Sha256(file.content) # remote_hash
             THEN [exc |-> "none", valid |-> FALSE,
                   log |-> << CmpEvent("file"),
                              [e |-> "log", level |-> "error", tag |-> "sha256 mismatch",
                               provided |-> Sha256(file.content), actual |-> remote_hash] >>]
             ELSE [exc |-> "none", valid |-> TRUE, log |-> <<CmpEvent("file")>>]
    ELSE [exc |-> "none", valid |-> FALSE,
          log |-> << [e |-> "log", level |-> "error", tag |-> "TypeError",
                      sub_type |-> ti_entity.api_sub_type] >>]

\* ThreatConnect._convert_to_ti_entity; kind "None" when no branch applies
convert_to_ti_entity(tc_entity) ==
    IF tc_entity.type \in indicator_types
    THEN [kind |-> "Indicator", api_sub_type |-> tc_entity.type, unique_id |-> tc_entity.summary]
    ELSE IF tc_entity.type \in group_types
    THEN [kind |-> "Group", api_sub_type |-> tc_entity.type, unique_id |-> tc_entity.id]
    ELSE IF tc_entity.type = "Victim"
    THEN [kind |-> "Victim", api_sub_type |-> "None", unique_id |-> tc_entity.summary]
    ELSE [kind |-> "None", api_sub_type |-> "None", unique_id |-> "None"]

\* ThreatConnect.success without the look at the status of the body
success_ok_only(r) == r.ok

\* ThreatConnect.success
success(r) ==
    IF r.ok THEN (IF ~r.decodable THEN FALSE ELSE r.status = "Success") ELSE FALSE

\* a name as a Python value, to be compared with a value that may be None
Atom(x) == [t |-> "atom", a |-> x]

\* the rating, confidence and summary checks after the loop
FieldCheck(tag, facet, provided, expected) ==
    IF provided # expected
    THEN [valid |-> FALSE,
          log |-> << CmpEvent(facet),
                     [e |-> "log", level |-> "error", tag |-> tag,
                      provided |-> provided, actual |-> expected] >>]
    ELSE [valid |-> TRUE, log |-> <<CmpEvent(facet)>>]

\* ThreatConnect.tc_entity(tc_entity, owner, file) against the response r
tc_entity_check(tc_entity, r, file) ==
    LET ti_entity == convert_to_ti_entity(tc_entity)
        fetch == <<FetchEvent(ti_entity.unique_id)>>
    IN  IF ti_entity.kind = "None" THEN [exc |-> "AttributeError", val |-> FALSE, trace |-> <<>>]
        ELSE IF ~success(r)
        THEN [exc |-> "none", val |-> FALSE,
              trace |-> Append(fetch, [e |-> "log", level |-> "error", tag |-> "NotFoundError",
                                       summary |-> tc_entity.summary])]
        ELSE LET remote == r.data
                 va == response_attributes(remote, tc_entity)
                 vt == response_tags(remote, tc_entity)
                 vl == response_labels(remote, tc_entity)
                 vf == file_check(ti_entity, remote.file_hash, file)
                 loop == fetch \o va.log \o vt.log \o vl.log
                 valid1 == va.valid /\ vt.valid /\ vl.valid /\ vf.valid
             IN  IF vf.exc # "none" THEN [exc |-> vf.exc, val |-> FALSE, trace |-> loop]
                 ELSE IF ti_entity.kind = "Indicator" THEN
                     LET cr == FieldCheck("RatingError", "rating",
                                          tc_entity.rating, remote.rating)
                         cc == FieldCheck("ConfidenceError", "confidence",
                                          tc_entity.confidence, remote.confidence)
                         cs == FieldCheck("SummaryError", "summary",
                                          Atom(ti_entity.unique_id), remote.value)
                     IN  [exc |-> "none",
                          val |-> valid1 /\ cr.valid /\ cc.valid /\ cs.valid,
                          trace |-> loop \o vf.log \o cr.log \o cc.log \o cs.log]
                 ELSE IF ti_entity.kind = "Group" THEN
                     LET cs == FieldCheck("SummaryError", "summary",
                                          Atom(tc_entity.summary), remote.value)
                     IN  [exc |-> "none", val |-> valid1 /\ cs.valid,
                          trace |-> loop \o vf.log \o cs.log]
                 ELSE [exc |-> "none", val |-> valid1, trace |-> loop \o vf.log]

----------------------------------------------------------------------------
(* The entities and responses the model is checked on: for each facet, pairs *)
(* of what the test expects and what the platform holds.                     *)

Attr(ty, v) == [type |-> ty, value |-> v]

AttributePairs ==
    { << <<Attr("Source", "feedA")>>, <<Attr("Source", "feedA")>> >>,
      << <<Attr("Source", "feedA")>>, <<Attr("Source", "feedB")>> >>,
      << <<Attr("Source", "feedA")>>, <<>> >>,
      << <<>>, <<Attr("Source", "feedA")>> >> }
TagPairs == { << <<"t1">>, <<"t1">> >>, << <<"t1">>, <<>> >>, << <<"t1">>, <<"t1", "t1">> >> }
LabelPairs == { << <<"TLP">>, <<"TLP">> >>, << <<>>, <<"TLP">> >> }
RatingPairs == { <<PyInt(3), PyInt(3)>>, <<PyInt(3), PyInt(1)>> }
ConfidencePairs == { <<PyInt(50), PyInt(50)>>, <<PyNone, PyInt(50)>> }
SummaryPairs == { <<"1.2.3.4", Atom("1.2.3.4")>>, <<"1.2.3.4", Atom("other")>> }

EntityTypes == indicator_types \cup group_types \cup {"Victim", "Widget"}
Files == {NoFile, File("c1"), File("c2")}
RemoteHashes == {"h1", "h2"}

\* what the body of a response holds when it holds no entity
EmptyRemote ==
    [present |-> FALSE, attribute |-> <<>>, tag |-> <<>>, securityLabel |-> <<>>,
     rating |-> PyNone, confidence |-> PyNone, value |-> PyNone, file_hash |-> "h1"]

\* the response statuses: success, a failure status, a body that is no JSON,
\* an HTTP error
ResponseKinds ==
    { [ok |-> TRUE, decodable |-> TRUE, status |-> "Success"],
      [ok |-> TRUE, decodable |-> TRUE, status |-> "Failure"],
      [ok |-> TRUE, decodable |-> FALSE, status |-> "Success"],
      [ok |-> FALSE, decodable |-> TRUE, status |-> "Success"] }

Response(k, remote) ==
    [ok |-> k.ok, decodable |-> k.decodable, status |-> k.status, data |-> remote]

----------------------------------------------------------------------------
(* The state machine: a test harness that calls the validators *)

NoCall == [fn |-> "none"]
NoResult == [exc |-> "none", returned |-> FALSE, val |-> FALSE]

\* the validators run in a test, where no app is about to exit
NoApp == [runtime_level |-> "none"]

\* and no layout.json is looked at
NoLayout == [loaded |-> FALSE]

Init ==
    /\ store \in Stores
    /\ deepdiff \in BOOLEAN
    /\ pc = "idle"
    /\ call = NoCall
    /\ result = NoResult
    /\ trace = <<>>
    /\ caller = PyNone
    /\ exit_service = NoApp
    /\ layout_json = NoLayout

\* Redis.data(variable, test_data, op, **kwargs), run to its end
DataCall ==
    /\ pc = "idle"
    /\ \E c \in DataCalls :
        /\ Covered(store, c)
        /\ LET Ends(r) ==
                   /\ call' = c
                   /\ result' = [exc |-> r.exc, returned |-> r.exc = "none", val |-> r.val]
                   /\ trace' = r.trace
                   /\ caller' = r.test
           IN  Ends(Redis_data(store, deepdiff, c.variable, c.test_data, c.op, c.kw))
    /\ pc' = "done"
    /\ UNCHANGED <<store, deepdiff, exit_service, layout_json>>

\* the harness takes the result and goes on to its next call
Return ==
    /\ pc = "done"
    /\ pc' = "idle"
    /\ call' = NoCall
    /\ result' = NoResult
    /\ trace' = <<>>
    /\ caller' = PyNone
    /\ UNCHANGED <<store, deepdiff, exit_service, layout_json>>

\* ThreatConnect.tc_entity(tc_entity, owner, file), run to its end, the fetch
\* giving the response r
TcEntityCall ==
    /\ pc = "idle"
    /\ \E ty \in EntityTypes, a \in AttributePairs, tg \in TagPairs, lb \in LabelPairs,
          rt \in RatingPairs, cf \in ConfidencePairs, sm \in SummaryPairs,
          file \in Files, h \in RemoteHashes, k \in ResponseKinds, present \in BOOLEAN :
        LET tc_entity == [type |-> ty, summary |-> sm[1], id |-> "7", attribute |-> a[1],
                          tag |-> tg[1], securityLabel |-> lb[1], rating |-> rt[1],
                          confidence |-> cf[1]]
            remote == IF present
                      THEN [present |-> TRUE, attribute |-> a[2], tag |-> tg[2],
                            securityLabel |-> lb[2], rating |-> rt[2], confidence |-> cf[2],
                            value |-> sm[2], file_hash |-> h]
                      ELSE [EmptyRemote EXCEPT !.file_hash = h]
            r == Response(k, remote)
            out == tc_entity_check(tc_entity, r, file)
        IN  /\ call' = [fn |-> "tc_entity", tc_entity |-> tc_entity, response |-> r,
                        file |-> file]
            /\ result' = [exc |-> out.exc, returned |-> out.exc = "none", val |-> out.val]
            /\ trace' = out.trace
            /\ caller' = PyNone
    /\ pc' = "done"
    /\ UNCHANGED <<store, deepdiff, exit_service, layout_json>>

\* the harness of the key-value validator
Next == DataCall \/ Return

Spec == Init /\ [][Next]_vars

\* the harness of the entity validator, which reads neither the store nor
\* deepdiff: one store stands for all
InitTC ==
    /\ Init
    /\ deepdiff
    /\ store[VarPlain] = PyStr(<<"a", "b">>)

NextTC == TcEntityCall \/ Return

SpecTC == InitTC /\ [][NextTC]_vars

----------------------------------------------------------------------------
(* What the trace of a finished call holds *)

DataDone == pc = "done" /\ call.fn = "data"
EntityDone == pc = "done" /\ call.fn = "tc_entity"

ReturnedFalse == result.returned /\ ~result.val
ReturnedTrue == result.returned /\ result.val

HasEvent(kind) == \E i \in 1..Len(trace) : trace[i].e = kind
HasLine(tags) == \E i \in 1..Len(trace) : trace[i].e = "log" /\ trace[i].tag \in tags
HasErrorLine == \E i \in 1..Len(trace) : trace[i].e = "log" /\ trace[i].level = "error"

NotFoundTags == {"NotFoundError"}
DiffTags == {"Diff: Missing data at index", "Diff: Extra data at index"}
MaxTag == "Max number of differences reached."
DiffLines == {i \in 1..Len(trace) : trace[i].e = "log" /\ trace[i].tag \in DiffTags}
MaxLines == {i \in 1..Len(trace) : trace[i].e = "log" /\ trace[i].tag = MaxTag}

JsonEqNames == {<<"j", "e", "q">>, <<"j", "s", "o", "n", "_", "e", "q">>}
CallOp == EffectiveOp(call.op)
Stored == StoreRead(store, call.variable.s)

\* operator_json_eq calling json.loads on every value, a string or not
Loaded_no_guard(v) == IF IsStr(v) THEN json_loads(v.s) ELSE ParseFail

\* a value as operator_json_eq sees it: a string is parsed, any other value
\* is taken as it is
Loaded(v) == IF IsStr(v) THEN json_loads(v.s) ELSE ParseOk(v, 0)

----------------------------------------------------------------------------
(* Redis.data: the checks before the fetch *)

\* C1: a call of Redis.data with a non-empty variable and an operator name
\* that resolves to nothing returns false and never reads the store.
C1_UnknownOperatorNoFetch ==
    (DataDone /\ Truthy(call.variable) /\ get_operator(CallOp) = "None")
        => /\ ReturnedFalse
           /\ ~HasEvent("read")
           /\ ~HasEvent("op")
           /\ HasLine({"Invalid operator provided"})

C1_Witness ==
    /\ DataDone
    /\ call.variable = PyStr(VarPlain)
    /\ call.op = PyStr(<<"u", "n", "k", "n", "o", "w", "n", "_", "o", "p">>)
    /\ call.test_data = PyStr(<<"a", "b">>)
    /\ store[VarPlain] = PyStr(<<"a", "b">>)
    /\ ReturnedFalse
    /\ trace = << LogV("error", "Invalid operator provided", PyStr(CallOp)) >>

\* C2: a call of Redis.data with the variable None or '' returns false after
\* one NoneError line, with no read of the store and no call of an operator,
\* whatever the operator name.
C2_NoVariableNoneError ==
    (DataDone /\ ~Truthy(call.variable))
        => /\ ReturnedFalse
           /\ trace = << Log("error", "NoneError: Redis Variable not provided") >>
           /\ ~HasEvent("read")
           /\ ~HasEvent("op")

C2_Witness ==
    /\ DataDone
    /\ call.variable = PyNone
    /\ get_operator(CallOp) = "None"
    /\ ReturnedFalse
    /\ HasLine({"NoneError: Redis Variable not provided"})

----------------------------------------------------------------------------
(* Redis.data: a key the store does not hold *)

AbsentKeyEq ==
    /\ DataDone
    /\ Truthy(call.variable)
    /\ call.variable.s \notin DOMAIN store
    /\ CallOp = <<"e", "q">>
    /\ ~IsNull(call.test_data)
    /\ KwEmpty(call.kw)

----------------------------------------------------------------------------
(* Redis.data: errors inside the comparison *)

UsesDeepDiff ==
    get_operator(CallOp) \in {"operator_deep_diff", "operator_json_eq", "operator_keyvalue_eq"}

MalformedJson ==
    /\ CallOp \in JsonEqNames
    /\ \/ IsStr(Stored) /\ ~Loaded(Stored).ok
       \/ IsStr(call.test_data) /\ ~Loaded(call.test_data).ok

\* C4, as the spec has it: when the comparison meets an internal error (a
\* string under jeq that is no JSON, the deepdiff library missing), the call
\* of Redis.data raises nothing: it returns false and logs an error line.
C4_FailClosed ==
    (DataDone /\ Truthy(call.variable) /\ KwEmpty(call.kw)
        /\ (MalformedJson \/ (UsesDeepDiff /\ ~deepdiff)))
        => (ReturnedFalse /\ HasErrorLine)

----------------------------------------------------------------------------
(* Redis.validate_log_output: the diff annotations *)

\* C7, as the spec has it: a call of Redis.data logs at most max_diff
\* Missing/Extra annotations, then at most one marker that the maximum was
\* reached, and the marker comes after every annotation.
C7_DiffCap ==
    DataDone
        => /\ Cardinality(DiffLines) <= max_diff
           /\ Cardinality(MaxLines) <= 1
           /\ \A i \in DiffLines, j \in MaxLines : i < j

----------------------------------------------------------------------------
(* operator_json_eq *)

RECURSIVE WithoutKeys(_, _)
WithoutKeys(m, ks) ==
    IF ks = <<>> THEN m ELSE WithoutKeys(MapDel(m, Head(ks)), Tail(ks))

JsonEqOnMaps ==
    /\ DataDone
    /\ Truthy(call.variable)
    /\ CallOp \in JsonEqNames
    /\ deepdiff
    /\ call.kw.has_exclude
    /\ ~call.kw.has_exclude_keys
    /\ Loaded(Stored).ok /\ IsMap(Loaded(Stored).v)
    /\ Loaded(call.test_data).ok /\ IsMap(Loaded(call.test_data).v)

\* C8, as the spec has it: jeq on two mappings with an exclude list of any
\* length completes and returns whether the mappings are equal once every
\* listed key is removed from both; a listed key that a mapping does not hold
\* changes nothing.
C8_ExcludeAnyLength ==
    JsonEqOnMaps
        => /\ result.returned
           /\ result.val = (WithoutKeys(Loaded(Stored).v, call.kw.exclude)
                               = WithoutKeys(Loaded(call.test_data).v, call.kw.exclude))

JsonEqOnLists ==
    /\ DataDone
    /\ Truthy(call.variable)
    /\ CallOp \in JsonEqNames
    /\ deepdiff
    /\ KwEmpty(call.kw)
    /\ Loaded(Stored).ok /\ IsList(Loaded(Stored).v)
    /\ Loaded(call.test_data).ok /\ IsList(Loaded(call.test_data).v)

\* C10, as the spec has it: jeq parses a stored or expected JSON string and
\* compares without regard to order, so on two sequences the call returns
\* whether they hold the same elements: stored "[1,2,3]" against [3,2,1] is
\* true.
C10_JsonEqOrderInsensitive ==
    JsonEqOnLists
        => /\ result.returned
           /\ result.val = (Range(Loaded(Stored).v.l) = Range(Loaded(call.test_data).v.l))

----------------------------------------------------------------------------
(* ThreatConnect.tc_entity *)

Entity == call.tc_entity
Remote == call.response.data
KnownType == Entity.type \in indicator_types \cup group_types \cup {"Victim"}
FileBearing == Entity.type \in {"Document", "Report"}
FetchOk ==
    call.response.ok /\ call.response.decodable /\ call.response.status = "Success"

Count(q, x) == Cardinality({i \in 1..Len(q) : q[i] = x})
SameItems(p, q) == \A x \in Range(p) \cup Range(q) : Count(p, x) = Count(q, x)

\* every facet but the file equal on the two sides
FacetsEqual ==
    /\ SameItems(Entity.attribute, Remote.attribute)
    /\ SameItems(Entity.tag, Remote.tag)
    /\ SameItems(Entity.securityLabel, Remote.securityLabel)
    /\ Entity.type \in indicator_types
          => /\ Entity.rating = Remote.rating
             /\ Entity.confidence = Remote.confidence
    /\ Entity.type \in indicator_types \cup group_types
          => Atom(Entity.summary) = Remote.value

\* C5, as the spec has it: an entity of a sub-type that bears no file,
\* validated without a file, whose fetch succeeds and whose attributes, tags,
\* labels, rating, confidence and summary all equal the platform's, is valid.
C5_NoFileEntityValid ==
    (EntityDone /\ KnownType /\ ~FileBearing /\ ~call.file.given /\ FetchOk /\ FacetsEqual)
        => ReturnedTrue

\* C6: when the fetch of the entity is not successful (ok false, a body that
\* is no JSON, or a status other than "Success"), tc_entity logs a
\* NotFoundError line, returns false and compares no facet; when ok is true
\* and the status is "Success" no NotFoundError line is logged and, the
\* body holding the entity, the comparisons run.
C6_FetchFailureNotFound ==
    (EntityDone /\ KnownType)
        => /\ ~FetchOk => /\ ReturnedFalse
                          /\ HasLine(NotFoundTags)
                          /\ HasEvent("fetch")
                          /\ ~HasEvent("cmp")
           /\ FetchOk => /\ ~HasLine(NotFoundTags)
                         /\ HasEvent("fetch")
                         /\ (result.returned /\ Remote.present) => HasEvent("cmp")

C6_Witness ==
    /\ EntityDone
    /\ Entity.type = "Address"
    /\ call.response.ok
    /\ call.response.decodable
    /\ call.response.status = "Failure"
    /\ Remote.present
    /\ ~SameItems(Entity.attribute, Remote.attribute)
    /\ ReturnedFalse
    /\ HasLine(NotFoundTags)
    /\ Len(trace) = 2

FileFacetFailed == HasLine({"sha256 mismatch", "TypeError"})
HashesEqual == Sha256(call.file.content) = Remote.file_hash

\* C9: with a file supplied and the fetch successful, the file facet of a
\* Document or Report passes exactly when the SHA-256 of the file equals the
\* platform's hash, a mismatch giving false and a hash-mismatch line; for any
\* other sub-type the facet fails with a TypeError line, whatever the hashes.
C9_FileFacet ==
    (EntityDone /\ KnownType /\ FetchOk /\ call.file.given)
        => /\ result.returned
           /\ FileBearing
                 => /\ FileFacetFailed <=> ~HashesEqual
                    /\ ~HashesEqual => (~result.val /\ HasLine({"sha256 mismatch"}))
                    /\ HashesEqual => (result.val <=> FacetsEqual)
                    /\ ~HasLine({"TypeError"})
           /\ ~FileBearing
                 => /\ ~result.val
                    /\ HasLine({"TypeError"})
                    /\ ~HasLine({"sha256 mismatch"})

C9_Witness ==
    /\ EntityDone
    /\ Entity.type = "Document"
    /\ FetchOk
    /\ FacetsEqual
    /\ call.file = File("c1")
    /\ Remote.file_hash = "h2"
    /\ ReturnedFalse
    /\ HasLine({"sha256 mismatch"})

----------------------------------------------------------------------------
(* Validator.get_operator *)

\* the canonical name of each registered name
Canonical(name) ==
    CASE name \in {<<"e", "q">>, <<"=">>} -> <<"e", "q">>
      [] name \in {<<"n", "e">>, <<"!", "=">>} -> <<"n", "e">>
      [] name \in {<<"l", "t">>, <<"<">>} -> <<"l", "t">>
      [] name \in {<<"l", "e">>, <<"<", "=">>} -> <<"l", "e">>
      [] name \in {<<"g", "t">>, <<">">>} -> <<"g", "t">>
      [] name \in {<<"g", "e">>, <<">", "=">>} -> <<"g", "e">>
      [] name \in {<<"j", "e", "q">>, <<"j", "s", "o", "n", "_", "e", "q">>} -> <<"j", "e", "q">>
      [] name \in {<<"k", "v", "e", "q">>,
                   <<"k", "e", "y", "v", "a", "l", "u", "e", "_", "e", "q">>}
            -> <<"k", "v", "e", "q">>
      [] name = <<"d", "d">> -> <<"d", "d">>
      [] name = <<"r", "e", "x">> -> <<"r", "e", "x">>
      [] OTHER -> <<>>

Registered(name) == Canonical(name) # <<>>

\* the function the call of Redis.data called, when it called one
CalledWith(fn) == \E i \in 1..Len(trace) : trace[i].e = "op" /\ trace[i].fn = fn

\* values that Python orders
Orderable(v) == IsInt(v) \/ IsStr(v) \/ IsList(v)

EqualArguments == KwEmpty(call.kw) /\ Stored = call.test_data

\* C11: get_operator resolves exactly the eighteen registered names, case
\* taken into account, and gives None, raising nothing, for any other name;
\* an alias resolves to the function of its canonical name; on equal
\* arguments eq, le and ge give true and ne, lt and gt give false.
C11_OperatorTable ==
    (DataDone /\ Truthy(call.variable))
        => /\ Registered(CallOp) <=> HasEvent("op")
           /\ ~Registered(CallOp) => (ReturnedFalse /\ get_operator(CallOp) = "None")
           /\ Registered(CallOp)
                 => /\ get_operator(CallOp) # "None"
                    /\ CalledWith(get_operator(Canonical(CallOp)))
           /\ (EqualArguments /\ Canonical(CallOp) = <<"e", "q">>) => ReturnedTrue
           /\ (EqualArguments /\ Canonical(CallOp) = <<"n", "e">>) => ReturnedFalse
           /\ (EqualArguments /\ Orderable(Stored)
                 /\ Canonical(CallOp) \in {<<"l", "e">>, <<"g", "e">>}) => ReturnedTrue
           /\ (EqualArguments /\ Orderable(Stored)
                 /\ Canonical(CallOp) \in {<<"l", "t">>, <<"g", "t">>}) => ReturnedFalse

C11_Witness ==
    /\ DataDone
    /\ call.variable = PyStr(VarPlain)
    /\ call.op = PyStr(<<"<", "=">>)
    /\ EqualArguments
    /\ Stored = PyStr(<<"a", "b">>)
    /\ CalledWith("operator.le")
    /\ ReturnedTrue

----------------------------------------------------------------------------
(* The normalisation of operator_json_eq, applied once and once again *)

MaxJsonLen == 3
JsonChars == {"1", "\"", "[", "]", ","}

\* the values normalised: the short strings over JsonChars and the values of
\* the key-value harness
NormInputs ==
    {PyStr(q) : q \in SeqsUpTo(JsonChars, MaxJsonLen)} \cup StoredValues \cup ExpectedValues

\* the outcome r of normalising v in the given round
Normalized(v, round, r) ==
    /\ call' = [fn |-> "normalize", v |-> v, round |-> round]
    /\ result' = [exc |-> IF r.ok THEN "none" ELSE "JSONDecodeError",
                  returned |-> r.ok, val |-> FALSE]
    /\ caller' = r.v
    /\ trace' = <<>>
    /\ pc' = "done"
    /\ UNCHANGED <<store, deepdiff, exit_service, layout_json>>

\* "if isinstance(app_data, string_types): app_data = json.loads(app_data)"
NormalizeCall ==
    /\ pc = "idle"
    /\ \E v \in NormInputs : Normalized(v, 1, Loaded(v))

\* the same on the value the first round gave
NormalizeAgain ==
    /\ pc = "done"
    /\ call.fn = "normalize"
    /\ call.round = 1
    /\ result.returned
    /\ Normalized(caller, 2, Loaded(caller))

NextNorm == NormalizeCall \/ NormalizeAgain \/ Return

SpecNorm == InitTC /\ [][NextNorm]_vars

\* the second round is over: call.v is what the first round gave
NormalizedTwice == pc = "done" /\ call.fn = "normalize" /\ call.round = 2

\* C12, as the code has it: normalising twice gives what normalising once
\* gives whenever the first round gives a value that is no string (every
\* structured value, every string holding a JSON number, list or object); a
\* string that the first round gives is parsed again by the second.
C12_NormalizeIdempotentOffStrings ==
    (NormalizedTwice /\ ~IsStr(call.v)) => (result.returned /\ caller = call.v)

C12_Witness ==
    /\ NormalizedTwice
    /\ call.v = PyList(<<PyInt(1)>>)
    /\ result.returned
    /\ caller = call.v

\* C12, as the spec has it: for every value, normalising twice gives the same
\* value as normalising once.
C12_NormalizeIdempotent ==
    NormalizedTwice => (result.returned /\ caller = call.v)

----------------------------------------------------------------------------
(* Redis.data: what a call leaves behind *)

\* C13, as the spec has it: a call of Redis.data that returns leaves the
\* expected value the caller passed as it was before the call, a mapping
\* passed with op jeq and an exclude option included; the log lines are its
\* only effect.
C13_CallerValueUnchanged ==
    (DataDone /\ result.returned) => caller = call.test_data

----------------------------------------------------------------------------
(* ThreatConnect.tc_entity: an entity of no known type *)

\* C14, as the spec has it: for an entity whose type is no indicator type, no
\* group type and not "Victim", tc_entity raises nothing: it logs the failure
\* and returns false.
C14_UnknownTypeReturnsFalse ==
    (EntityDone /\ ~KnownType) => (ReturnedFalse /\ HasErrorLine)

----------------------------------------------------------------------------
(* tcex/exit/exit.py: ExitCode and ExitService *)

\* class ExitCode(Enum); a member is written as its value
SUCCESS == 0
FAILURE == 1
PARTIAL_FAILURE == 3
ExitCodes == {SUCCESS, FAILURE, PARTIAL_FAILURE}

\* ExitCode(x) for a member or an int x: ValueError for an int that is no value
ExitCode(x) == [ok |-> x \in ExitCodes, value |-> x]

\* str.lower() on the runtime levels of install.json
Lower(level) ==
    CASE level = "Playbook" -> "playbook"
      [] level = "Organization" -> "organization"

\* ExitService.__init__, with what the service reads from install.json, the
\* inputs and the file system; status holds the code sys.exit was called with
FreshService(runtime_level, aot_enabled, db_type, out_writable) ==
    [runtime_level |-> runtime_level, tc_aot_enabled |-> aot_enabled,
     tc_playbook_db_type |-> db_type, out_writable |-> out_writable,
     exit_code |-> SUCCESS, shutdown |-> FALSE,
     file |-> [exists |-> FALSE, text |-> <<>>],
     messages |-> 0, status |-> <<>>]

\* the exit_code setter: the service after it, the lines logged, the exception
ExitCodeSetter(svc, x) ==
    IF ~ExitCode(x).ok THEN [exc |-> "ValueError", svc |-> svc, log |-> <<>>]
    ELSE IF x = PARTIAL_FAILURE /\ Lower(svc.runtime_level) = "playbook"
    THEN [exc |-> "none", svc |-> [svc EXCEPT !.exit_code = SUCCESS],
          log |-> << Log("info", "Changing exit code") >>]
    ELSE [exc |-> "none", svc |-> [svc EXCEPT !.exit_code = x], log |-> <<>>]

\* "if os.access(tc_out_path, os.W_OK)": the message.tc file written
MessageFile(svc) == IF svc.out_writable THEN "tc_out_path/message.tc" ELSE "message.tc"

\* the default of max_length in _message_tc(message, max_length=255)
max_length == 255

\* str(message) for a message that is no str
DigitChar(n) == CASE n = 0 -> "0" [] n = 1 -> "1" [] n = 2 -> "2" [] n = 3 -> "3"
                  [] n = 4 -> "4" [] n = 5 -> "5" [] n = 6 -> "6" [] n = 7 -> "7"
                  [] n = 8 -> "8" [] n = 9 -> "9"
Str(message) == IF IsStr(message) THEN message.s ELSE << DigitChar(message.i) >>

\* open(message_file).read(): text mode reads "\r\n" and "\r" as "\n"
ReadText(text) ==
    LET Keep(p) == ~(p[1] = "\n" /\ p[2] = "\r")
        Translated(kept) ==
            [k \in 1..Len(kept) |-> IF kept[k][1] = "\r" THEN "\n" ELSE kept[k][1]]
    IN  Translated(SelectSeq([i \in 1..Len(text) |->
                                 << text[i], IF i > 1 THEN text[i - 1] ELSE "" >>],
                             Keep))

\* message[-n:]
LastChars(text, n) ==
    IF Len(text) <= n THEN text ELSE SubSeq(text, Len(text) - n + 1, Len(text))

\* "if not message.endswith('\n'): message += '\n'"
WithNewline(text) ==
    IF Len(text) > 0 /\ text[Len(text)] = "\n" THEN text ELSE Append(text, "\n")

\* message[:n]
FirstChars(text, n) == SubSeq(text, 1, Min(n, Len(text)))

\* _message_tc keeping the first max_length characters
message_tc_keeps_head(file, message) ==
    [exists |-> TRUE,
     text |-> FirstChars(WithNewline((IF file.exists THEN ReadText(file.text) ELSE <<>>)
                                      \o Str(message)),
                         max_length)]

\* ExitService._message_tc(message): the message.tc file after the call, file
\* being the message.tc file before it
message_tc(file, message) ==
    [exists |-> TRUE,
     text |-> LastChars(WithNewline((IF file.exists THEN ReadText(file.text)
                                     ELSE <<>>) \o Str(message)),
                        max_length)]

\* the message of _aot_rpush when the push raises
AotPushMessage == PyStr(<< "E", "x", "c", "e", "p", "t", "i", "o", "n", " ", "d", "u", "r", "i", "n", "g", " ", "A", "O", "T", " ", "e", "x", "i", "t", " ", "p", "u", "s", "h", " ", "(", "e", ")", "." >>)

\* ExitService.exit from "self._exit_msg_handler(code, msg)" on, code being a
\* member; the push to the exit channel raises `fails` times. The service at
\* the end, the lines logged and events, the status sys.exit is called with.
RECURSIVE exit_from(_, _, _, _)
exit_from(svc, code, msg, fails) ==
    LET Handled(svc1, log1) ==
            IF svc.tc_aot_enabled /\ svc.tc_playbook_db_type = "Redis" /\ fails > 0
            THEN LET Nested(r) == [r EXCEPT !.log = log1 \o @]
                 IN  Nested(exit_from(svc1, FAILURE, AotPushMessage, fails - 1))
            ELSE [svc |-> [svc1 EXCEPT !.shutdown = TRUE, !.status = << code >>],
                  log |-> log1
                          \o (IF svc.tc_aot_enabled /\ svc.tc_playbook_db_type = "Redis"
                              THEN << [e |-> "rpush", value |-> code] >> ELSE <<>>)
                          \o << LogI("info", "Exit Code", code) >>,
                  status |-> code]
    IN  IF IsNull(msg)
        THEN Handled(svc, << [e |-> "write_output"] >>)
        ELSE Handled([svc EXCEPT !.file = message_tc(@, msg)],
                     << LogV(IF code \in {SUCCESS, PARTIAL_FAILURE} THEN "info" ELSE "error",
                             "exit message", msg),
                        [e |-> "write_output"] >>)

\* ExitService.exit(code, msg): code None stands for the exit_code property
exit(svc, code, msg, fails) ==
    exit_from(svc, IF IsNull(code) THEN svc.exit_code ELSE code.i, msg, fails)

----------------------------------------------------------------------------
(* The apps and calls the exit service is checked on *)

MaxMessages == 2
MaxPushFailures == 1

RuntimeLevels == {"Playbook", "Organization"}

Services ==
    {FreshService(rl, aot[1], aot[2], w) :
        rl \in RuntimeLevels,
        aot \in { <<FALSE, "Redis">>, <<TRUE, "Redis">>, <<TRUE, "Mock">> },
        w \in BOOLEAN}

Messages ==
    { PyStr(<<>>), PyStr(<<"a", "\n">>), PyStr(<<"b", "\r">>), PyInt(5),
      Run("a", max_length - 1), Run("a", max_length + 1) }

ExitMessages == {PyNone, PyStr(<<"d", "o", "n", "e">>)}

\* the values assigned to exit_code: the members and an int that is none
CodeValues == ExitCodes \cup {2}

\* the code argument of exit: left out, or a member
CodeArgs == {PyNone} \cup {PyInt(c) : c \in ExitCodes}

InitExit ==
    /\ store \in {st \in Stores : st[VarPlain] = PyStr(<<"a", "b">>)}
    /\ deepdiff = TRUE
    /\ pc = "idle"
    /\ call = NoCall
    /\ result = NoResult
    /\ trace = <<>>
    /\ caller = PyNone
    /\ exit_service \in Services
    /\ layout_json = NoLayout

Running == pc = "idle" /\ exit_service.status = <<>>

\* "tcex.exit.exit_code = x"
SetExitCode ==
    /\ Running
    /\ \E x \in CodeValues :
        LET Set(r) ==
                /\ exit_service' = r.svc
                /\ call' = [fn |-> "exit_code", code |-> x]
                /\ result' = [exc |-> r.exc, returned |-> r.exc = "none", val |-> FALSE]
                /\ trace' = r.log
        IN  Set(ExitCodeSetter(exit_service, x))
    /\ UNCHANGED <<store, deepdiff, pc, caller, layout_json>>

\* a call of _message_tc(message) with the default max_length
MessageTc ==
    /\ Running
    /\ exit_service.messages < MaxMessages
    /\ \E m \in Messages :
        /\ exit_service' = [exit_service EXCEPT !.file = message_tc(@, m),
                                                !.messages = @ + 1]
        /\ call' = [fn |-> "_message_tc", message |-> m,
                    message_file |-> MessageFile(exit_service),
                    before |-> exit_service.file]
    /\ result' = [exc |-> "none", returned |-> TRUE, val |-> FALSE]
    /\ trace' = <<>>
    /\ UNCHANGED <<store, deepdiff, pc, caller, layout_json>>

\* exit(code, msg), which ends the process
Exit ==
    /\ Running
    /\ \E code \in CodeArgs, msg \in ExitMessages, fails \in 0..MaxPushFailures :
        LET Ends(r) ==
                /\ exit_service' = r.svc
                /\ call' = [fn |-> "exit", code |-> code, msg |-> msg,
                            before |-> exit_service.file]
                /\ trace' = r.log
        IN  Ends(exit(exit_service, code, msg, fails))
    /\ result' = [exc |-> "SystemExit", returned |-> FALSE, val |-> FALSE]
    /\ pc' = "done"
    /\ UNCHANGED <<store, deepdiff, caller, layout_json>>

NextExit == SetExitCode \/ MessageTc \/ Exit

SpecExit == InitExit /\ [][NextExit]_vars

----------------------------------------------------------------------------
(* C15, C16: the exit service *)

IsApp == exit_service.runtime_level \in RuntimeLevels
Exited == IsApp /\ exit_service.status # <<>>
PlaybookApp == IsApp /\ Lower(exit_service.runtime_level) = "playbook"
MessageTcDone == call.fn = "_message_tc"
HasCarriageReturn(text) == \E i \in 1..Len(text) : text[i] = "\r"
EndsWithNewline(text) == Len(text) > 0 /\ text[Len(text)] = "\n"
\* the message as a line: a newline appended when it lacks one
AsLine(text) == IF EndsWithNewline(text) THEN text ELSE Append(text, "\n")
\* the last max_length characters of the content before the call followed by
\* the message as a line
Appended == LastChars(call.before.text \o AsLine(Str(call.message)), max_length)

\* C15: a playbook app never exits with the partial-failure code 3, whatever
\* was assigned to exit_code and whatever code exit was called with.
C15_PlaybookNeverPartialFailure ==
    (PlaybookApp /\ Exited) => exit_service.status # << PARTIAL_FAILURE >>

\* C16, as the code has it: message.tc, once written, holds at most 255 characters
\* and ends with a newline; after a call of _message_tc whose message is not
\* empty, on a file whose content holds no carriage return, it equals the last
\* 255 characters of the content before followed by the message as a line.
C16_MessageTcAppendsPlainText ==
    /\ (IsApp /\ exit_service.file.exists) =>
            /\ Len(exit_service.file.text) <= max_length
            /\ EndsWithNewline(exit_service.file.text)
    /\ (/\ MessageTcDone
        /\ ~HasCarriageReturn(call.before.text)
        /\ Str(call.message) # <<>>) => exit_service.file.text = Appended

C16_Witness ==
    /\ MessageTcDone
    /\ call.before.exists
    /\ ~HasCarriageReturn(call.before.text)
    /\ Str(call.message) # <<>>
    /\ Len(call.before.text) + Len(AsLine(Str(call.message))) > max_length
    /\ exit_service.file.text = Appended

\* C16 as stated: after every call of _message_tc the file equals the last 255
\* characters of the content before followed by the message as a line.
C16_MessageTcAppends ==
    MessageTcDone => exit_service.file.text = Appended

----------------------------------------------------------------------------
(* C17: the labels of the diff annotations *)

MissingTag == "Diff: Missing data at index"
ExtraTag == "Diff: Extra data at index"
\* a failed eq/ne comparison of a stored string with an expected string
FailedStringCompare ==
    /\ DataDone /\ ReturnedFalse
    /\ Truthy(call.variable) /\ CallOp \in EqNe
    /\ IsStr(Stored) /\ IsStr(call.test_data)
OnlyInExpected == Range(call.test_data.s) \ Range(Stored.s)
OnlyInActual == Range(Stored.s) \ Range(call.test_data.s)

\* C17: in the diagnostics of a failed eq/ne comparison an element of the
\* expected value that the stored value lacks is annotated 'Missing data', and
\* an element of the stored value that the expected value lacks 'Extra data';
\* no other annotation is logged when only one of the two kinds occurs.
C17_MissingIsExpectedOnly ==
    FailedStringCompare =>
        /\ OnlyInExpected # {} => HasLine({MissingTag})
        /\ OnlyInActual # {} => HasLine({ExtraTag})
        /\ (OnlyInExpected = {} /\ OnlyInActual # {}) => ~HasLine({MissingTag})
        /\ (OnlyInActual = {} /\ OnlyInExpected # {}) => ~HasLine({ExtraTag})

----------------------------------------------------------------------------
(* C18, C19: compare_dicts and compare_lists as tc_entity calls them *)

\* the facets were compared: a recognised type, a successful fetch, an entity
\* in the body
Compared == EntityDone /\ KnownType /\ FetchOk /\ Remote.present
LinesOf(tag, kind) ==
    {i \in 1..Len(trace) : /\ trace[i].e = "log"
                           /\ trace[i].tag = tag
                           /\ "kind" \in DOMAIN trace[i]
                           /\ trace[i].kind = kind}
DidNotMatch == "did not match"
ExpectedOnly == "was in expected results but not in actual results"
ActualOnly == "was in actual results but not in expected results"

\* C18: for an attribute type that both sides hold with unequal values, the
\* error line compare_dicts logs for it holds the expected value and the
\* actual value of that type.
C18_MismatchLineHoldsBothValues ==
    Compared =>
        \A a \in Range(Entity.attribute), b \in Range(Remote.attribute) :
            (a.type = b.type /\ a.value # b.value) =>
                \E i \in LinesOf("AttributeError", DidNotMatch) :
                    /\ trace[i].key = a.type
                    /\ trace[i].expected = a.value
                    /\ trace[i].actual = b.value

----------------------------------------------------------------------------
(* compare_dicts and compare_lists called on their own *)

MaxKeys == 2
MaxItems == 2

CompareKeys == {"k1", "k2", "item"}
CompareValues == {"x", "y"}
CompareItems == {"t1", "t2"}

\* the dicts of at most MaxKeys keys, in every insertion order
CompareDicts ==
    {d \in [keys : {q \in SeqsUpTo(CompareKeys, MaxKeys) : Cardinality(Range(q)) = Len(q)},
            m : UNION {[D -> CompareValues] : D \in SUBSET CompareKeys}] :
        DOMAIN d.m = Range(d.keys)}

CompareLists == SeqsUpTo(CompareItems, MaxItems)

\* a call of fn(expected, actual, error_type) with the outcome r
Compares(fn, expected, actual, error_type, r) ==
    /\ call' = [fn |-> fn, expected |-> expected, actual |-> actual,
                error_type |-> error_type]
    /\ result' = [exc |-> "none", returned |-> TRUE, val |-> r.valid]
    /\ trace' = r.log
    /\ pc' = "done"
    /\ UNCHANGED <<store, deepdiff, caller, exit_service, layout_json>>

CompareDictsCall ==
    /\ pc = "idle"
    /\ \E expected \in CompareDicts, actual \in CompareDicts :
        Compares("compare_dicts", expected, actual, "AttributeError",
                 compare_dicts(expected, actual, "AttributeError"))

CompareListsCall ==
    /\ pc = "idle"
    /\ \E expected \in CompareLists, actual \in CompareLists :
        Compares("compare_lists", expected, actual, "TagError",
                 compare_lists(expected, actual, "TagError"))

NextCompare == CompareDictsCall \/ CompareListsCall \/ Return

SpecCompare == InitTC /\ [][NextCompare]_vars

CompareDictsDone == pc = "done" /\ call.fn = "compare_dicts"
CompareListsDone == pc = "done" /\ call.fn = "compare_lists"
ExpectedKeys == DOMAIN call.expected.m
ActualKeys == DOMAIN call.actual.m
UnequalKeys == {k \in ExpectedKeys \cap ActualKeys : call.expected.m[k] # call.actual.m[k]}
Excess(p, q, x) == IF Count(p, x) > Count(q, x) THEN Count(p, x) - Count(q, x) ELSE 0

\* C19: compare_dicts returns true exactly when the two dicts have the same
\* keys with equal values, compare_lists exactly when the two lists hold the
\* same items as often; every key missing from actual, every key only in
\* actual and every key with unequal values is logged once and no more, a
\* key with unequal values not as an extra too, and every item as often as
\* one side holds it more than the other.
C19_CompareExact ==
    /\ CompareDictsDone =>
        /\ result.val <=> (ExpectedKeys = ActualKeys /\ UnequalKeys = {})
        /\ \A k \in CompareKeys :
            /\ Cardinality({i \in LinesOf("AttributeError", ExpectedOnly) : trace[i].key = k})
                = IF k \in ExpectedKeys \ ActualKeys THEN 1 ELSE 0
            /\ Cardinality({i \in LinesOf("AttributeError", ActualOnly) : trace[i].key[1] = k})
                = IF k \in ActualKeys \ ExpectedKeys THEN 1 ELSE 0
            /\ Cardinality({i \in LinesOf("AttributeError", DidNotMatch) : trace[i].key = k})
                = IF k \in UnequalKeys THEN 1 ELSE 0
        /\ Len(trace) = Cardinality((ExpectedKeys \ ActualKeys) \cup (ActualKeys \ ExpectedKeys)
                                    \cup UnequalKeys)
    /\ CompareListsDone =>
        /\ result.val <=> SameItems(call.expected, call.actual)
        /\ \A x \in CompareItems :
            /\ Cardinality({i \in LinesOf("TagError", ExpectedOnly) : trace[i].key = x})
                = Excess(call.expected, call.actual, x)
            /\ Cardinality({i \in LinesOf("TagError", ActualOnly) : trace[i].key = x})
                = Excess(call.actual, call.expected, x)
        /\ Len(trace) = Cardinality(LinesOf("TagError", ExpectedOnly))
                        + Cardinality(LinesOf("TagError", ActualOnly))

C19_Witness ==
    /\ CompareDictsDone
    /\ ExpectedKeys = ActualKeys
    /\ Cardinality(UnequalKeys) = 1
    /\ ~result.val
    /\ Len(trace) = 1
    /\ trace[1].kind = DidNotMatch

----------------------------------------------------------------------------
(* C20: no facet check keeps another from running *)

IndicatorCompared == Compared /\ Entity.type \in indicator_types
AttributesDiffer == ~SameItems(Entity.attribute, Remote.attribute)
TagsDiffer == ~SameItems(Entity.tag, Remote.tag)
LabelsDiffer == ~SameItems(Entity.securityLabel, Remote.securityLabel)
RatingDiffers == Entity.rating # Remote.rating
ConfidenceDiffers == Entity.confidence # Remote.confidence
SummaryDiffers == Atom(Entity.summary) # Remote.value
FacetTags == {"AttributeError", "TagError", "SecurityLabelError", "RatingError",
              "ConfidenceError", "SummaryError"}

\* C20: after a successful fetch of an indicator every facet that differs
\* from the platform's gets its error line whatever the other facets are,
\* and the call returns false when any differs; with all six differing all
\* six tags are logged.
C20_NoShortCircuit ==
    IndicatorCompared =>
        /\ AttributesDiffer => HasLine({"AttributeError"})
        /\ TagsDiffer => HasLine({"TagError"})
        /\ LabelsDiffer => HasLine({"SecurityLabelError"})
        /\ RatingDiffers => HasLine({"RatingError"})
        /\ ConfidenceDiffers => HasLine({"ConfidenceError"})
        /\ SummaryDiffers => HasLine({"SummaryError"})
        /\ (AttributesDiffer \/ TagsDiffer \/ LabelsDiffer \/ RatingDiffers
            \/ ConfidenceDiffers \/ SummaryDiffers) => ReturnedFalse

C20_Witness ==
    /\ IndicatorCompared
    /\ AttributesDiffer /\ TagsDiffer /\ LabelsDiffer
    /\ RatingDiffers /\ ConfidenceDiffers /\ SummaryDiffers
    /\ \A tag \in FacetTags : HasLine({tag})
    /\ ReturnedFalse

----------------------------------------------------------------------------
(* C21: an alias against its canonical name *)

IsDiffLine(x) == x.e = "log" /\ x.tag \in DiffTags \cup {MaxTag}
DiffAnnotations(tr) == SelectSeq(tr, IsDiffLine)
EqNeAliases == { <<"=">>, <<"!", "=">> }
\* the same call with the canonical name of its operator
CanonicalCall == [call EXCEPT !.op = PyStr(Canonical(CallOp))]
AliasCall ==
    /\ DataDone /\ Truthy(call.variable) /\ CallOp \in EqNeAliases
    /\ Covered(store, CanonicalCall)

\* C21: data() called with '=' gives the result and, on failure, the diff
\* annotations that the same call with 'eq' gives, and '!=' those of 'ne'.
C21_AliasAsCanonical ==
    AliasCall =>
        LET Same(r) ==
                /\ r.exc = result.exc
                /\ r.val = result.val
                /\ DiffAnnotations(r.trace) = DiffAnnotations(trace)
        IN  Same(Redis_data(store, deepdiff, call.variable, call.test_data,
                            CanonicalCall.op, call.kw))

----------------------------------------------------------------------------
(* C22: the previews of validate_log_output *)

PreviewTags == {"App Data", "Test Data"}
PreviewLines == {i \in 1..Len(trace) : trace[i].e = "log" /\ trace[i].tag \in PreviewTags}
\* a string of at most truncate characters, or the first truncate characters
\* of an element followed by the mark of a shortened element
ShortString(q, marked) ==
    \/ Len(q) <= truncate
    \/ /\ marked
       /\ Len(q) = truncate + Len(Ellipsis)
       /\ SubSeq(q, truncate + 1, Len(q)) = Ellipsis
Shortened(v) ==
    /\ IsStr(v) => ShortString(v.s, FALSE)
    /\ IsList(v) => \A k \in 1..Len(v.l) : IsStr(v.l[k]) => ShortString(v.l[k].s, TRUE)

\* C22: in the lines data() logs for the actual and the expected value, a
\* string longer than truncate and a string element longer than it inside a
\* list appear shortened to their first truncate characters.
C22_PreviewsShortened ==
    (DataDone /\ result.returned) =>
        \A i \in PreviewLines : Shortened(trace[i].v)

----------------------------------------------------------------------------
(* C23: the fetch of Redis.data *)

ReadEvents == {i \in 1..Len(trace) : trace[i].e = "read"}
OpEvents == {i \in 1..Len(trace) : trace[i].e = "op"}
\* the fetch the suffix of the key asks for
FetchBySuffix(key) ==
    IF EndsWith(key, <<"B", "i", "n", "a", "r", "y", "A", "r", "r", "a", "y">>)
    THEN "read_binary_array"
    ELSE IF EndsWith(key, <<"B", "i", "n", "a", "r", "y">>) THEN "read_binary"
    ELSE "read"
\* the key and the operator name passed their tests
Validated == DataDone /\ Truthy(call.variable) /\ get_operator(CallOp) # "None"

\* C23: a call of data() whose key and operator are valid fetches once, by
\* the fetch the suffix of its key asks for, applies the operator once after
\* the fetch, and returns what the operator gave.
C23_OneFetchThenOperator ==
    Validated =>
        /\ Cardinality(ReadEvents) = 1
        /\ Cardinality(OpEvents) = 1
        /\ \A i \in ReadEvents :
            /\ trace[i].fn = FetchBySuffix(call.variable.s)
            /\ trace[i].key = call.variable.s
            /\ \A j \in OpEvents : i < j
        /\ LET Returns(r) == r.exc = "none" => (result.returned /\ result.val = r.val)
           IN  Returns(CallOperator(get_operator(CallOp), Stored, call.test_data,
                                    call.kw, deepdiff))

----------------------------------------------------------------------------
(* C24: kveq with exclude_keys *)

KvEqNames == { <<"k", "v", "e", "q">>,
               <<"k", "e", "y", "v", "a", "l", "u", "e", "_", "e", "q">> }
IsKvList(v) == IsList(v) /\ \A i \in 1..Len(v.l) : IsMap(v.l[i])
NotExcluded(kv) ==
    \A j \in 1..Len(call.kw.exclude_keys) :
        MapGet(kv.m, KeyField) # PyStr(call.kw.exclude_keys[j])
\* the entries of a key-value list whose key is not excluded
Kept(v) == SelectSeq(v.l, NotExcluded)
KvEqExcluding ==
    /\ DataDone /\ Truthy(call.variable) /\ CallOp \in KvEqNames
    /\ call.kw.has_exclude_keys /\ ~call.kw.has_exclude
    /\ deepdiff
    /\ IsKvList(Stored) /\ IsKvList(call.test_data)

\* C24: data() with kveq or keyvalue_eq and exclude_keys, on two key-value
\* lists, returns true when the entries whose key is not excluded are the
\* same on both sides and false when one side has such an entry the other
\* has not; the list the caller passed is as it was.
C24_ExcludeKeysDropped ==
    KvEqExcluding =>
        /\ result.returned
        /\ Kept(Stored) = Kept(call.test_data) => result.val
        /\ Range(Kept(Stored)) # Range(Kept(call.test_data)) => ~result.val
        /\ caller = call.test_data

C24_Witness ==
    /\ KvEqExcluding
    /\ Stored # call.test_data
    /\ Kept(Stored) = Kept(call.test_data)
    /\ Len(Kept(Stored)) < Len(Stored.l)
    /\ ReturnedTrue

----------------------------------------------------------------------------
(* Redis.not_null and Redis.type. A variable is named with its declared type *)
(* after "!", as the playbook names it; playbook.read gives None for a name  *)
(* the store does not hold, and for no name.                                 *)

StartsWith(s, prefix) == Len(s) >= Len(prefix) /\ SubSeq(s, 1, Len(prefix)) = prefix

\* playbook.variable_type(variable): what follows the last "!" of the name
variable_type(variable) ==
    SubSeq(variable, SetMax({i \in 1..Len(variable) : variable[i] = "!"}) + 1, Len(variable))

\* the Python type Redis.type expects for a declared type, as the tag of the
\* model's values
redis_type(declared) ==
    IF EndsWith(declared, <<"A", "r", "r", "a", "y">>) THEN "list"
    ELSE IF StartsWith(declared, <<"S", "t", "r", "i", "n", "g">>) THEN "str"
    ELSE IF StartsWith(declared, <<"K", "e", "y", "V", "a", "l", "u", "e", "P", "a", "i", "r">>) THEN "map"
    ELSE "str"

\* the key playbook.read is called with
ReadKey(variable) == IF IsStr(variable) THEN variable.s ELSE <<>>

\* Redis.type with a shape test that takes any stored value
Redis_type_any_shape(st, variable) ==
    LET Read(variable_data) ==
            [val |-> Truthy(variable_data),
             trace |-> << ReadEvent("read", ReadKey(variable)),
                          LogV("info", "Variable", variable),
                          LogV("info", "App Data", variable_data) >>
                       \o (IF Truthy(variable_data) THEN <<>>
                           ELSE << LogV("error", "NotFoundError", variable) >>)]
    IN  Read(StoreRead(st, ReadKey(variable)))

\* Redis.type(variable): the value returned and the events in order
Redis_type(st, variable) ==
    LET Read(variable_data) ==
            LET before == << ReadEvent("read", ReadKey(variable)),
                             LogV("info", "Variable", variable),
                             LogV("info", "App Data", variable_data) >>
            IN  IF ~Truthy(variable_data)
                THEN [val |-> FALSE,
                      trace |-> Append(before, LogV("error", "NotFoundError", variable))]
                ELSE IF variable_data.t # redis_type(variable_type(variable.s))
                THEN [val |-> FALSE,
                      trace |-> Append(before, LogV("error", "TypeMismatchError", variable))]
                ELSE [val |-> TRUE, trace |-> before]
    IN  Read(StoreRead(st, ReadKey(variable)))


\* Redis.not_null(variable): the value returned and the events in order
Redis_not_null(st, variable) ==
    LET Read(variable_data) ==
            LET before == << ReadEvent("read", ReadKey(variable)),
                             LogV("info", "Variable", variable),
                             LogV("info", "DB Data", variable_data) >>
            IN  IF ~Truthy(variable)
                THEN [val |-> FALSE,
                      trace |-> Append(before,
                                       Log("error", "NoneError: Redis Variable not provided"))]
                ELSE IF ~Truthy(variable_data)
                THEN [val |-> FALSE,
                      trace |-> Append(before, LogV("error", "NotFoundError", variable))]
                ELSE [val |-> TRUE, trace |-> before]
    IN  Read(StoreRead(st, ReadKey(variable)))

\* the declared types, the variables and the values of the checks
DeclaredTypes == { <<"S", "t", "r", "i", "n", "g">>, <<"S", "t", "r", "i", "n", "g", "A", "r", "r", "a", "y">>, <<"K", "e", "y", "V", "a", "l", "u", "e", "P", "a", "i", "r">>, <<"K", "e", "y", "V", "a", "l", "u", "e", "P", "a", "i", "r", "A", "r", "r", "a", "y">>, <<"B", "i", "n", "a", "r", "y">> }
TypedKeys == { <<"v", "!">> \o ty : ty \in DeclaredTypes }
VarValues ==
    { PyStr(<<>>), PyStr(<<"a", "b">>), PyList(<<>>), PyList(<<PyStr(<<"a">>)>>),
      PyDict(EmptyMap), Dict1(<<"a">>, PyInt(1)), PyInt(1) }
\* a store holding one variable, or none
VarStores == { [k \in {key} |-> v] : key \in TypedKeys, v \in VarValues }
             \cup { [k \in {} |-> PyNone] }

InitVar ==
    /\ store \in VarStores
    /\ deepdiff = TRUE
    /\ pc = "idle"
    /\ call = NoCall
    /\ result = NoResult
    /\ trace = <<>>
    /\ caller = PyNone
    /\ exit_service = NoApp
    /\ layout_json = NoLayout

\* a call of fn(variable) with the outcome r
Checks(fn, variable, r) ==
    /\ call' = [fn |-> fn, variable |-> variable]
    /\ result' = [exc |-> "none", returned |-> TRUE, val |-> r.val]
    /\ trace' = r.trace
    /\ pc' = "done"
    /\ UNCHANGED <<store, deepdiff, caller, exit_service, layout_json>>

NotNullCall ==
    /\ pc = "idle"
    /\ \E variable \in {PyNone, PyStr(<<>>)} \cup {PyStr(k) : k \in TypedKeys} :
        Checks("not_null", variable, Redis_not_null(store, variable))

TypeCall ==
    /\ pc = "idle"
    /\ \E variable \in {PyStr(k) : k \in TypedKeys} :
        Checks("type", variable, Redis_type(store, variable))

NextVar == NotNullCall \/ TypeCall \/ Return

SpecVar == InitVar /\ [][NextVar]_vars

----------------------------------------------------------------------------
(* C25: Redis.type *)

TypeDone == pc = "done" /\ call.fn = "type"
Declared == variable_type(call.variable.s)
\* the declared types the claim speaks of, and the shape each asks for
ShapeDeclared ==
    EndsWith(Declared, <<"A", "r", "r", "a", "y">>) \/ StartsWith(Declared, <<"S", "t", "r", "i", "n", "g">>) \/ StartsWith(Declared, <<"K", "e", "y", "V", "a", "l", "u", "e", "P", "a", "i", "r">>)
ShapeMatches ==
    IF EndsWith(Declared, <<"A", "r", "r", "a", "y">>) THEN IsList(Stored)
    ELSE IF StartsWith(Declared, <<"S", "t", "r", "i", "n", "g">>) THEN IsStr(Stored)
    ELSE IsMap(Stored)
IsStoredVar == call.variable.s \in DOMAIN store
NotFoundLogged == HasLine({"NotFoundError"})
MismatchLogged == HasLine({"TypeMismatchError"})

----------------------------------------------------------------------------
(* tcex/app_config/layout_json.py: LayoutJson and LayoutJsonUpdate. A layout *)
(* is the list of its outputs, an output its name.                          *)

\* sorted(outputs, key=lambda i: i['name']): p inserted into the sorted q
\* after the outputs that are not greater (the sort is stable)
RECURSIVE InsertByName(_, _)
InsertByName(q, p) ==
    IF Len(q) = 0 THEN << p >>
    ELSE IF PyCmp(p.name, q[Len(q)].name) = "lt"
         THEN Append(InsertByName(SubSeq(q, 1, Len(q) - 1), p), q[Len(q)])
         ELSE Append(q, p)

RECURSIVE SortedByName(_)
SortedByName(outputs) ==
    IF Len(outputs) = 0 THEN <<>>
    ELSE InsertByName(SortedByName(SubSeq(outputs, 1, Len(outputs) - 1)),
                      outputs[Len(outputs)])

\* LayoutJson.contents, under lru_cache: the file is read at the first access
Contents(lj) == IF lj.loaded THEN lj ELSE [lj EXCEPT !.loaded = TRUE, !.contents = lj.file]

\* LayoutJson.data: a new LayoutJsonModel built from the contents at every
\* access
Data(lj) == [outputs |-> Contents(lj).contents]

\* LayoutJson.write(data)
Write(lj, data) == [lj EXCEPT !.file = data.outputs]

\* update_sort_outputs: the sorted outputs are assigned to the model that
\* this access of self.lj.data built; kept is the LayoutJson afterwards,
\* sorted the model that was assigned to
update_sort_outputs(lj) ==
    [kept |-> Contents(lj),
     sorted |-> [Data(lj) EXCEPT !.outputs = SortedByName(Data(lj).outputs)]]

\* LayoutJsonUpdate.multiple(): self.lj.data is accessed again for the json
multiple(lj) ==
    Write(update_sort_outputs(lj).kept, Data(update_sort_outputs(lj).kept))

MaxOutputs == 3
OutputNames == {PyStr(<<"a">>), PyStr(<<"b">>), PyStr(<<"x">>)}
Layouts ==
    {[loaded |-> FALSE, contents |-> <<>>, file |-> q] :
        q \in SeqsUpTo({[name |-> n] : n \in OutputNames}, MaxOutputs)}

InitLayout ==
    /\ store \in {st \in Stores : st[VarPlain] = PyStr(<<"a", "b">>)}
    /\ deepdiff = TRUE
    /\ pc = "idle"
    /\ call = NoCall
    /\ result = NoResult
    /\ trace = <<>>
    /\ caller = PyNone
    /\ exit_service = NoApp
    /\ layout_json \in Layouts

\* "lj.update.multiple()"
MultipleCall ==
    /\ pc = "idle"
    /\ layout_json' = multiple(layout_json)
    /\ call' = [fn |-> "multiple", before |-> layout_json.file]
    /\ result' = [exc |-> "none", returned |-> TRUE, val |-> FALSE]
    /\ trace' = <<>>
    /\ pc' = "done"
    /\ UNCHANGED <<store, deepdiff, caller, exit_service>>

\* the caller goes on with the LayoutJson object it holds
LayoutReturn ==
    /\ pc = "done"
    /\ pc' = "idle"
    /\ call' = NoCall
    /\ result' = NoResult
    /\ UNCHANGED <<store, deepdiff, trace, caller, exit_service, layout_json>>

NextLayout == MultipleCall \/ LayoutReturn

SpecLayout == InitLayout /\ [][NextLayout]_vars

MultipleDone == pc = "done" /\ call.fn = "multiple"
InNameOrder(outputs) ==
    \A i \in 1..Len(outputs) : \A j \in 1..Len(outputs) :
        i < j => PyCmp(outputs[i].name, outputs[j].name) \in {"lt", "eq"}

\* C26: after multiple() has run, the outputs of the layout.json file on disk
\* are in name order.
C26_OutputsSortedOnDisk ==
    MultipleDone => InNameOrder(layout_json.file)

----------------------------------------------------------------------------
(* ExitService.exit step by step: the call, the push of _aot_rpush, the
   re-entry of exit from its except clause *)

\* the nested calls of exit the interpreter's stack holds before it raises
\* RecursionError
RecursionLimit == 3

\* "self._exit_msg_handler(code, msg)" and "self._exit_playbook_handler(msg)"
exit_handlers(svc, code, msg) ==
    IF IsNull(msg)
    THEN [svc |-> svc, log |-> << [e |-> "write_output"] >>]
    ELSE [svc |-> [svc EXCEPT !.file = message_tc(@, msg)],
          log |-> << LogV(IF code \in {SUCCESS, PARTIAL_FAILURE} THEN "info" ELSE "error",
                          "exit message", msg),
                     [e |-> "write_output"] >>]

\* "self.token.shutdown = True", the log line and "sys.exit(code.value)"
exit_ends(code) ==
    /\ exit_service' = [exit_service EXCEPT !.shutdown = TRUE, !.status = << code >>]
    /\ trace' = Append(trace, LogI("info", "Exit Code", code))
    /\ result' = [exc |-> "SystemExit", returned |-> FALSE, val |-> FALSE]
    /\ pc' = "done"

\* _aot_rpush reaches the push
PushesExitCode ==
    exit_service.tc_aot_enabled /\ exit_service.tc_playbook_db_type = "Redis"

\* exit(code, msg) up to "if self.inputs.model_unresolved.tc_aot_enabled"
ExitCall ==
    /\ Running
    /\ \E code \in CodeArgs, msg \in ExitMessages :
        LET chosen == IF IsNull(code) THEN exit_service.exit_code ELSE code.i
            Handled(r) ==
                /\ exit_service' = r.svc
                /\ trace' = r.log
        IN  /\ Handled(exit_handlers(exit_service, chosen, msg))
            /\ call' = [fn |-> "exit", chosen |-> chosen, code |-> chosen, depth |-> 1]
    /\ pc' = "aot"
    /\ UNCHANGED <<store, deepdiff, result, caller, layout_json>>

\* the push is skipped: AOT is off, or the playbook database is not Redis
ExitWithoutPush ==
    /\ pc = "aot"
    /\ ~PushesExitCode
    /\ exit_ends(call.code)
    /\ UNCHANGED <<store, deepdiff, call, caller, layout_json>>

\* "self.redis.rpush(tc_exit_channel, exit_code)" returns
AotRpush ==
    /\ pc = "aot"
    /\ PushesExitCode
    /\ exit_ends(call.code)
    /\ UNCHANGED <<store, deepdiff, call, caller, layout_json>>

\* the push raises: "except Exception as e: self.exit(ExitCode.FAILURE, ...)"
\* runs exit again up to its own push, one call deeper
AotRpushRaises ==
    /\ pc = "aot"
    /\ PushesExitCode
    /\ call.depth < RecursionLimit
    /\ LET Handled(r) ==
               /\ exit_service' = r.svc
               /\ trace' = trace \o r.log
       IN  Handled(exit_handlers(exit_service, FAILURE, AotPushMessage))
    /\ call' = [call EXCEPT !.code = FAILURE, !.depth = @ + 1]
    /\ UNCHANGED <<store, deepdiff, pc, result, caller, layout_json>>

\* the push raises with the stack full: the nested call of exit raises
\* RecursionError, which no frame catches, and the interpreter ends
StackExhausted ==
    /\ pc = "aot"
    /\ PushesExitCode
    /\ call.depth = RecursionLimit
    /\ result' = [exc |-> "RecursionError", returned |-> FALSE, val |-> FALSE]
    /\ pc' = "done"
    /\ UNCHANGED <<store, deepdiff, call, trace, caller, exit_service, layout_json>>

NextExitSteps ==
    SetExitCode \/ ExitCall \/ ExitWithoutPush \/ AotRpush \/ AotRpushRaises
    \/ StackExhausted

\* the interpreter keeps running the call of exit once it is made
SpecExitSteps ==
    /\ InitExit
    /\ [][NextExitSteps]_vars
    /\ WF_vars(ExitWithoutPush \/ AotRpush \/ AotRpushRaises \/ StackExhausted)

InExit == pc = "aot"

\* the process ended through sys.exit, the outputs written and the token
\* shutdown flag set: with the chosen code, or FAILURE after a failed push
EndedThroughSysExit ==
    /\ pc = "done"
    /\ result.exc = "SystemExit"
    /\ exit_service.shutdown
    /\ \E i \in 1..Len(trace) : trace[i] = [e |-> "write_output"]
    /\ exit_service.status = << IF call.depth > 1 THEN FAILURE ELSE call.chosen >>

\* C27: every call of exit eventually ends the process through sys.exit with
\* the chosen code, the playbook outputs written and the token shutdown flag
\* set; with AOT enabled and a push that keeps failing the process still
\* ends through sys.exit, with FAILURE
C27_ExitEndsProcess == InExit ~> EndedThroughSysExit

----------------------------------------------------------------------------
(* ThreatConnect.tc_entities: a batch of entities, each with the response its
   fetch gives, and the files argument *)

\* files=None
NoFiles == [given |-> FALSE, l |-> <<>>]
FileList(l) == [given |-> TRUE, l |-> l]

\* "if files:"
FilesGiven(files) == files.given /\ Len(files.l) > 0

\* the calls of tc_entity the loop makes for the entity at index i
EntityCalls(i, files) ==
    IF FilesGiven(files)
    THEN << [index |-> i, file |-> files.l[i]], [index |-> i, file |-> NoFile] >>
    ELSE << [index |-> i, file |-> NoFile] >>

\* the calls of the loop from index i on, in order
RECURSIVE LoopCalls(_, _, _)
LoopCalls(n, files, i) ==
    IF i > n THEN <<>> ELSE EntityCalls(i, files) \o LoopCalls(n, files, i + 1)

\* the calls run one after the other from the k-th on, up to the first that
\* raises: the results appended and what the calls left in the trace
RECURSIVE RunCalls(_, _, _)
RunCalls(entities, calls, k) ==
    IF k > Len(calls) THEN [exc |-> "none", results |-> <<>>, trace |-> <<>>]
    ELSE LET c == calls[k]
             Began == << [e |-> "tc_entity", index |-> c.index, file |-> c.file] >>
             After(out) ==
                 IF out.exc # "none"
                 THEN [exc |-> out.exc, results |-> <<>>, trace |-> Began \o out.trace]
                 ELSE LET Rest(r) ==
                              [exc |-> r.exc, results |-> << out.val >> \o r.results,
                               trace |-> Began \o out.trace \o r.trace]
                      IN  Rest(RunCalls(entities, calls, k + 1))
         IN  After(tc_entity_check(entities[c.index].tc_entity,
                                   entities[c.index].response, c.file))

\* ThreatConnect.tc_entities(tc_entities, owner, files): what it returns, a
\* dict on a length mismatch and the list of results otherwise
tc_entities(entities, files) ==
    IF FilesGiven(files) /\ Len(entities) # Len(files.l)
    THEN [exc |-> "none",
          val |-> [kind |-> "dict", valid |-> TRUE, errors |-> << "LengthError" >>,
                   results |-> <<>>],
          trace |-> <<>>]
    ELSE LET Returned(r) ==
                 [exc |-> r.exc,
                  val |-> [kind |-> "list", valid |-> FALSE, errors |-> <<>>,
                           results |-> r.results],
                  trace |-> r.trace]
         IN  Returned(RunCalls(entities, LoopCalls(Len(entities), files, 1), 1))

MaxBatch == 2

BatchEntity(ty, remote_tags, k) ==
    [tc_entity |-> [type |-> ty, summary |-> "1.2.3.4", id |-> "7", attribute |-> <<>>,
                    tag |-> << "t1" >>, securityLabel |-> <<>>, rating |-> PyInt(3),
                    confidence |-> PyInt(50)],
     response |-> Response(k, [present |-> TRUE, attribute |-> <<>>, tag |-> remote_tags,
                               securityLabel |-> <<>>, rating |-> PyInt(3),
                               confidence |-> PyInt(50), value |-> Atom("1.2.3.4"),
                               file_hash |-> "h1"])]

\* an indicator that matches, one whose tags differ, one that cannot be
\* fetched, a document
BatchEntities ==
    { BatchEntity("Address", << "t1" >>, k) : k \in ResponseKinds }
    \cup { BatchEntity("Address", <<>>, k) : k \in {r \in ResponseKinds : success(r)} }
    \cup { BatchEntity("Document", << "t1" >>, k) : k \in {r \in ResponseKinds : success(r)} }

Batches == UNION { [1..n -> BatchEntities] : n \in 0..MaxBatch }

FilesArgs ==
    {NoFiles}
    \cup { FileList(l) : l \in UNION { [1..n -> Files \ {NoFile}] : n \in 0..(MaxBatch + 1) } }

\* tc_entities(tc_entities, owner, files), run to its end
TcEntitiesCall ==
    /\ pc = "idle"
    /\ \E entities \in Batches, files \in FilesArgs :
        LET Ends(out) ==
                /\ call' = [fn |-> "tc_entities", tc_entities |-> entities, files |-> files]
                /\ result' = [exc |-> out.exc, returned |-> out.exc = "none", val |-> out.val]
                /\ trace' = out.trace
        IN  Ends(tc_entities(entities, files))
    /\ caller' = PyNone
    /\ pc' = "done"
    /\ UNCHANGED <<store, deepdiff, exit_service, layout_json>>

NextBatch == TcEntitiesCall \/ Return

SpecBatch == InitTC /\ [][NextBatch]_vars

BatchDone == pc = "done" /\ call.fn = "tc_entities"

\* the calls of tc_entity made, in order
Reconciled == SelectSeq(trace, LAMBDA ev : ev.e = "tc_entity")

LengthMismatch ==
    /\ BatchDone
    /\ FilesGiven(call.files)
    /\ Len(call.files.l) # Len(call.tc_entities)

\* C28: when a files list is given whose length differs from the number of
\* entities, the batch is reported as not valid with a LengthError and no
\* entity is reconciled
C28_LengthMismatchNotValid ==
    LengthMismatch =>
        /\ result.returned
        /\ result.val.kind = "dict"
        /\ result.val.errors = << "LengthError" >>
        /\ ~result.val.valid
        /\ Reconciled = <<>>

\* the call the claim gives the entity at index i: with its own file when a
\* files list is given, without a file otherwise
OwnCall(i) ==
    [e |-> "tc_entity", index |-> i,
     file |-> IF FilesGiven(call.files) THEN call.files.l[i] ELSE NoFile]

\* C29: tc_entities returns one result per entity, in the order given, each
\* entity fetched and reconciled exactly once: with its own file when a files
\* list of matching length is given, without a file otherwise
C29_OneResultPerEntity ==
    (BatchDone /\ ~LengthMismatch /\ result.returned) =>
        /\ result.val.kind = "list"
        /\ Len(result.val.results) = Len(call.tc_entities)
        /\ Reconciled = [i \in 1..Len(call.tc_entities) |-> OwnCall(i)]

----------------------------------------------------------------------------
(* C30: Redis.not_null *)

NotNullDone == pc = "done" /\ call.fn = "not_null"
NameGiven == Truthy(call.variable)
StoredValue == StoreRead(store, ReadKey(call.variable))

\* C30: not_null returns true exactly when the variable name is not empty and
\* the stored value is not empty or null; an empty name gives false with a
\* NoneError and no read of the store; a name whose value is absent gives false
\* with a NotFoundError
C30_NotNull ==
    NotNullDone =>
        /\ result.returned
        /\ result.val <=> (NameGiven /\ Truthy(StoredValue))
        /\ ~NameGiven =>
               (HasLine({"NoneError: Redis Variable not provided"}) /\ ReadEvents = {})
        /\ (NameGiven /\ ~Truthy(StoredValue)) => NotFoundLogged
====
